---- MODULE Spec2Model ----
(***************************************************************************)
(* Execution core of the node: the block processor (core.StateProcessor), *)
(* the state transition (core.StateTransition) and the bytecode            *)
(* interpreter (vm.Interpreter).                                           *)
(*                                                                         *)
(* Spec   : StateProcessor.Process over one block; every transaction runs  *)
(*          ApplyTransaction -> TransitionDb -> evm.Call/Create -> Run.    *)
(* SpecVM : one top-level interpreter invocation (Call or StaticCall) on   *)
(*          a contract whose code, gas, rule set and configuration are     *)
(*          drawn from bounded sets.                                       *)
(* SpecBlock    : Process over blocks of up to MaxTxs transactions.        *)
(* SpecScenario : Process over one transaction of a fresh account.         *)
(* SpecFork     : Process over blocks before, at and after the block of    *)
(*                the DAO hard fork, with and without support for it.      *)
(* SpecReplay   : Process over one block, then the first transaction of    *)
(*                the block once more on the state it started from.        *)
(* SpecProbe    : SpecVM with and without the tracer and with jump tables  *)
(*                whose jump operation halts or reverts.                    *)
(*                                                                         *)
(* Two libraries the core relies on are modelled next to it:               *)
(* SpecList : the nonce-sorted transaction list of an account (core.txList *)
(*            over core.txSortedMap), under any sequence of its calls.    *)
(* SpecRlp  : the type cache of package rlp, used by goroutines that call  *)
(*            cachedTypeInfo concurrently.                                 *)
(***************************************************************************)
EXTENDS Integers, Sequences, FiniteSets, TLC

(***************************************************************************)
(* Bounds of the model.                                                    *)
(***************************************************************************)
\* Width of the machine word that stands in for uint64: a gas limit with
\* BitLen() > 64 is a gas limit >= 2^WordBits.
WordBits == 18
\* Length of the payload of a message.
MaxDataLen == 1
\* Stands in for params.StackLimit (1024).
StackLimit == 8
\* Stands in for params.CallCreateDepth (1024).
CallCreateDepth == 2
\* Number of transactions of a block.
MaxTxs == 3
\* The steps of a frame are counted up to this number.
StepCap == 16
\* The largest nonce of a transaction of the list.
MaxNonce == 2
\* The goroutines that use the type cache.
NumGoroutines == 2
\* The calls of cachedTypeInfo one goroutine makes.
MaxCalls == 2

WordLimit == 2 ^ WordBits

Min(x, y) == IF x < y THEN x ELSE y

(***************************************************************************)
(* Errors.  NoErr is Go's nil error.                                       *)
(***************************************************************************)
NoErr == "nil"
ErrNonceTooHigh == "nonce too high"
ErrNonceTooLow == "nonce too low"
errInsufficientBalanceForGas == "insufficient balance to pay for gas"
ErrGasLimitReached == "gas limit reached"
ErrOutOfGas == "out of gas"
ErrInsufficientBalance == "insufficient balance for transfer"
ErrDepth == "max call depth exceeded"
errWriteProtection == "write protection"
errExecutionReverted == "execution reverted"
errGasUintOverflow == "gas uint64 overflow"
ErrInvalidOpcode == "invalid opcode"
ErrStackUnderflow == "stack underflow"
ErrStackLimit == "stack limit reached"
ErrInvalidJump == "invalid jump destination"

\* The empty byte slice / nil output.
Nil == << >>

(***************************************************************************)
(* Accounts.  "a" sends the transactions, "b" is a plain account, "k" is   *)
(* a contract, "n" is the address a contract creation allocates and "m"    *)
(* is a miner that sends nothing.                                          *)
(***************************************************************************)
Addr == {"a", "b", "k", "n", "m"}
NoAddr == "none"

(***************************************************************************)
(* Opcodes (the subset of the instruction set that is modelled).           *)
(***************************************************************************)
STOP == 0
ADD == 1
NOT == 25
POP == 80
MSTORE == 82
SSTORE == 85
JUMP == 86
JUMPDEST == 91
PUSH1 == 96
CALL == 241
RETURN == 243
STATICCALL == 250
REVERT == 253
INVALID == 254

(***************************************************************************)
(* Gas parameters.                                                         *)
(***************************************************************************)
TxGas == 21000
TxGasContractCreation == 53000
TxDataZeroGas == 4
TxDataNonZeroGas == 68
GasQuickStep == 2
GasFastestStep == 3
GasMidStep == 8
JumpdestGas == 1
SstoreSetGas == 20000
SstoreResetGas == 5000
SstoreRefundGas == 15000
CallGas == 40
CallValueTransferGas == 9000
MemoryGas == 3
QuadCoeffDiv == 512

(***************************************************************************)
(* State.                                                                  *)
(***************************************************************************)
VARIABLES
    \* world state (vm.StateDB)
    balance,      \* [Addr -> Nat]
    nonce,        \* [Addr -> Nat]
    storage,      \* [Addr -> [slot -> value]] (absent slot reads 0)
    refund,       \* the refund counter of the state
    code,         \* [Addr -> Seq(byte)]
    \* chain configuration / EVM context
    rules,        \* "frontier" | "homestead" | "byzantium"
    coinbase,     \* evm.Coinbase
    cfg,          \* vm.Config: [Debug, DisableGasMetering]
    gasLimit,     \* block.GasLimit()
    number,       \* block.Number()
    daoFork,      \* [support, block]: config.DAOForkSupport and config.DAOForkBlock
    \* block processor
    block,        \* the transactions (as messages) of the block
    gp,           \* GasPool
    txIndex,      \* transactions already applied
    receipts,     \* Seq of receipts
    totalUsedGas,
    pstate,       \* "new" | "run" | "aborted" | "finalized" | "vmonly"
    procErr,      \* the error Process returned
    processRet,   \* what Process returned: [returned, receipts, usedGas, nilGas, err]
    calls,        \* the calls Process has made to its collaborators, in order
    firstRun,     \* what the first of two applications of a message left behind
    \* state transition
    phase,        \* "idle" | "bought" | "vm" | "post" | "returned" | "vmdone"
    msg,          \* the message being applied
    stGas,        \* st.gas
    initialGas,   \* st.initialGas
    result,       \* what TransitionDb returned: [ret, requiredGas, usedGas, failed, err]
    pre,          \* world state and pool when ApplyTransaction was entered
    \* EVM / interpreter
    frames,       \* the chain of call frames, innermost last
    depth,        \* evm.depth
    abort,        \* evm.abort
    readOnly,     \* in.readOnly
    returnData,   \* in.returnData
    tracer,       \* cfg.Tracer: the arguments of the last CaptureState
    vmRet,        \* what the top-level evm.Call/Create returned: [ret, gas, err]
    \* transaction list of one account (core.txList)
    strict,       \* l.strict
    items,        \* l.txs.items: [nonce -> transaction], on the nonces present
    index,        \* l.txs.index: the slice of the nonce heap
    cache,        \* l.txs.cache: [set, txs], set = FALSE is the nil slice
    costcap,      \* l.costcap
    gascap,       \* l.gascap
    listRet,      \* the last call on the list, its arguments and its results
    \* type cache of the rlp package
    typeCache,      \* [TypeKeys -> pointer], 0 where the map has no entry
    typeCacheMutex, \* [readers, writer, pending]: goroutines holding or awaiting it
    infos,          \* the typeinfo objects allocated so far: "empty" | "filled"
    gos,            \* the goroutines: [pc, key, info, stack, ret, err, calls]
    generated,      \* [TypeKeys -> Nat]: the generations that succeeded
    received        \* [TypeKeys -> set of pointers] returned to callers

worldVars == <<balance, nonce, storage, refund, code>>
chainVars == <<rules, coinbase, cfg, gasLimit, number, daoFork>>
procVars == <<block, gp, txIndex, receipts, totalUsedGas, pstate, procErr,
              processRet, calls, firstRun>>
stVars == <<phase, msg, stGas, initialGas, result, pre>>
vmVars == <<frames, depth, abort, readOnly, returnData, tracer, vmRet>>
listVars == <<strict, items, index, cache, costcap, gascap, listRet>>
rlpVars == <<typeCache, typeCacheMutex, infos, gos, generated, received>>
libVars == <<listVars, rlpVars>>
evmVars == <<worldVars, chainVars, procVars, stVars, vmVars>>
vars == <<evmVars, libVars>>

IsHomestead == rules \in {"homestead", "byzantium"}
IsByzantium == rules = "byzantium"


(***************************************************************************)
(* GasPool (the block's resource pool).                                    *)
(***************************************************************************)
\* (mutant) a SubGas that fails empties the pool.
SubGas_Drain(pool, amount) ==
    IF pool < amount
    THEN [err |-> ErrGasLimitReached, gp |-> 0]
    ELSE [err |-> NoErr, gp |-> pool - amount]

\* SubGas: [err, gp]; fails, leaving the pool alone, when fewer than amount
\* units are available.
SubGas(pool, amount) ==
    IF pool < amount
    THEN [err |-> ErrGasLimitReached, gp |-> pool]
    ELSE [err |-> NoErr, gp |-> pool - amount]

AddGas(pool, amount) == pool + amount

(***************************************************************************)
(* core.StateTransition.  The methods are written over a record s that    *)
(* carries what they read and write: balance, nonce, gp, gas (st.gas),     *)
(* initialGas and the error returned.                                      *)
(***************************************************************************)
RECURSIVE CountNonZero(_)
CountNonZero(data) ==
    IF data = << >> THEN 0
    ELSE (IF Head(data) # 0 THEN 1 ELSE 0) + CountNonZero(Tail(data))

\* (mutant) under homestead rules the base cost of a contract creation is
\* charged to every message.
IntrinsicGas_CreationBase(data, contractCreation, homestead) ==
    LET base == IF contractCreation \/ homestead
                THEN TxGasContractCreation
                ELSE TxGas
        nz == CountNonZero(data)
    IN  IF Len(data) > 0
        THEN base + nz * TxDataNonZeroGas + (Len(data) - nz) * TxDataZeroGas
        ELSE base

\* The intrinsic gas of a message with the given payload.
IntrinsicGas(data, contractCreation, homestead) ==
    LET base == IF contractCreation /\ homestead
                THEN TxGasContractCreation
                ELSE TxGas
        nz == CountNonZero(data)
    IN  IF Len(data) > 0
        THEN base + nz * TxDataNonZeroGas + (Len(data) - nz) * TxDataZeroGas
        ELSE base

\* (mutant) a shortfall empties the gas instead of failing.
useGas_Local(s, amount) ==
    IF s.gas < amount
    THEN [s EXCEPT !.gas = 0]
    ELSE [s EXCEPT !.gas = @ - amount]

useGas(s, amount) ==
    IF s.gas < amount
    THEN [s EXCEPT !.err = ErrOutOfGas]
    ELSE [s EXCEPT !.gas = @ - amount]

\* (mutant) the pool is charged before the balance is checked.
buyGas_PoolFirst(s, m) ==
    IF m.gas >= WordLimit
    THEN [s EXCEPT !.err = ErrOutOfGas]
    ELSE LET mgval == m.gas * m.gasPrice
             sub == SubGas(s.gp, m.gas)
         IN  IF sub.err # NoErr
             THEN [s EXCEPT !.err = sub.err]
             ELSE IF s.balance[m.from] < mgval
             THEN [s EXCEPT !.err = errInsufficientBalanceForGas, !.gp = sub.gp]
             ELSE [s EXCEPT !.gp = sub.gp,
                            !.gas = (@ + m.gas) % WordLimit,
                            !.initialGas = m.gas,
                            !.balance[m.from] = @ - mgval]

\* (mutant) the gas is taken from the pool whether the pool has it or not.
buyGas_IgnorePoolError(s, m) ==
    IF m.gas >= WordLimit
    THEN [s EXCEPT !.err = ErrOutOfGas]
    ELSE LET mgval == m.gas * m.gasPrice
         IN  IF s.balance[m.from] < mgval
             THEN [s EXCEPT !.err = errInsufficientBalanceForGas]
             ELSE [s EXCEPT !.gp = @ - m.gas,
                            !.gas = (@ + m.gas) % WordLimit,
                            !.initialGas = m.gas,
                            !.balance[m.from] = @ - mgval]

buyGas(s, m) ==
    IF m.gas >= WordLimit
    THEN [s EXCEPT !.err = ErrOutOfGas]
    ELSE LET mgval == m.gas * m.gasPrice
             sub == SubGas(s.gp, m.gas)
         IN  IF s.balance[m.from] < mgval
             THEN [s EXCEPT !.err = errInsufficientBalanceForGas]
             ELSE IF sub.err # NoErr
             THEN [s EXCEPT !.err = sub.err]
             ELSE [s EXCEPT !.gp = sub.gp,
                            !.gas = (@ + m.gas) % WordLimit,
                            !.initialGas = m.gas,
                            !.balance[m.from] = @ - mgval]

\* (mutant) the two nonce comparisons are exchanged.
preCheck_Swapped(s, m) ==
    LET n == s.nonce[m.from]
    IN  IF m.checkNonce /\ n > m.nonce
        THEN [s EXCEPT !.err = ErrNonceTooHigh]
        ELSE IF m.checkNonce /\ n < m.nonce
        THEN [s EXCEPT !.err = ErrNonceTooLow]
        ELSE buyGas(s, m)

preCheck(s, m) ==
    LET n == s.nonce[m.from]
    IN  IF m.checkNonce /\ n < m.nonce
        THEN [s EXCEPT !.err = ErrNonceTooHigh]
        ELSE IF m.checkNonce /\ n > m.nonce
        THEN [s EXCEPT !.err = ErrNonceTooLow]
        ELSE buyGas(s, m)

\* (mutant) the remaining gas is ignored.
gasUsed_NoRemaining(s) == s.initialGas

gasUsed(s) == s.initialGas - s.gas

\* (mutant) the refund is capped at the gas used, not at half of it.
refundGas_FullCap(s, m, rawRefund) ==
    LET remaining == s.gas * m.gasPrice
        rf == Min(gasUsed(s), rawRefund)
        gas2 == (s.gas + rf) % WordLimit
    IN  [s EXCEPT !.balance[m.from] = @ + remaining + rf * m.gasPrice,
                  !.gas = gas2,
                  !.gp = AddGas(@, gas2)]

\* (mutant) the refund is half of the gas used, whatever the counter says.
refundGas_AlwaysHalf(s, m, rawRefund) ==
    LET remaining == s.gas * m.gasPrice
        rf == gasUsed(s) \div 2
        gas2 == (s.gas + rf) % WordLimit
    IN  [s EXCEPT !.balance[m.from] = @ + remaining + rf * m.gasPrice,
                  !.gas = gas2,
                  !.gp = AddGas(@, gas2)]

\* (mutant) the gas that is left is not given back to the pool.
refundGas_NoRelease(s, m, rawRefund) ==
    LET remaining == s.gas * m.gasPrice
        uhalf == gasUsed(s) \div 2
        rf == Min(uhalf, rawRefund)
        gas2 == (s.gas + rf) % WordLimit
    IN  [s EXCEPT !.balance[m.from] = @ + remaining + rf * m.gasPrice,
                  !.gas = gas2]

refundGas(s, m, rawRefund) ==
    LET remaining == s.gas * m.gasPrice
        uhalf == gasUsed(s) \div 2
        rf == Min(uhalf, rawRefund)
        gas2 == (s.gas + rf) % WordLimit
    IN  [s EXCEPT !.balance[m.from] = @ + remaining + rf * m.gasPrice,
                  !.gas = gas2,
                  !.gp = AddGas(@, gas2)]

\* (mutant) no VM error is escalated.
isConsensusError_Never(vmerr) == FALSE

\* (mutant) every VM error is returned as an error.
isConsensusError_Any(vmerr) == vmerr # NoErr

\* TransitionDb: the one VM error that invalidates the block.
isConsensusError(vmerr) == vmerr = ErrInsufficientBalance

(***************************************************************************)
(* Stack and memory.  The top of the stack is the last element.            *)
(***************************************************************************)
Back(stack, n) == stack[Len(stack) - n]
PopN(stack, n) == SubSeq(stack, 1, Len(stack) - n)
Push(stack, v) == Append(stack, v)

toWordSize(size) == (size + 31) \div 32

Zeros(n) == [i \in 1 .. n |-> 0]

\* Memory.Resize: the buffer only grows.
Resize(mem, size) ==
    IF Len(mem) < size THEN mem \o Zeros(size - Len(mem)) ELSE mem

\* Byte i (0 = most significant) of the 32-byte big-endian form of val.
WordByte(val, i) ==
    IF 31 - i > 3 THEN 0 ELSE (val \div (256 ^ (31 - i))) % 256

\* Memory.Set(offset, size, value): copy(store[offset:offset+size], value).
MemSet(mem, offset, size, value) ==
    [i \in 1 .. Len(mem) |->
        IF i > offset /\ i <= offset + size /\ i - offset <= Len(value)
        THEN value[i - offset]
        ELSE mem[i]]

\* Memory.Set32(offset, val).
MemSet32(mem, offset, val) ==
    [i \in 1 .. Len(mem) |->
        IF i > offset /\ i <= offset + 32
        THEN WordByte(val, i - offset - 1)
        ELSE mem[i]]

\* Memory.GetPtr(offset, size).
MemGet(mem, offset, size) ==
    IF size = 0 THEN Nil ELSE SubSeq(mem, offset + 1, offset + size)

(***************************************************************************)
(* The jump tables.                                                        *)
(***************************************************************************)
Operation(pop, push) ==
    [valid |-> TRUE, pop |-> pop, push |-> push, writes |-> FALSE,
     halts |-> FALSE, reverts |-> FALSE, jumps |-> FALSE, returns |-> FALSE,
     mem |-> FALSE]

InvalidOperation == [Operation(0, 0) EXCEPT !.valid = FALSE]

frontierInstructionSet(op) ==
    CASE op = STOP -> [Operation(0, 0) EXCEPT !.halts = TRUE]
      [] op = ADD -> Operation(2, 1)
      [] op = NOT -> Operation(1, 1)
      [] op = POP -> Operation(1, 0)
      [] op = MSTORE -> [Operation(2, 0) EXCEPT !.mem = TRUE]
      [] op = SSTORE -> [Operation(2, 0) EXCEPT !.writes = TRUE]
      [] op = JUMP -> [Operation(1, 0) EXCEPT !.jumps = TRUE]
      [] op = JUMPDEST -> Operation(0, 0)
      [] op = PUSH1 -> Operation(0, 1)
      [] op = CALL -> [Operation(7, 1) EXCEPT !.mem = TRUE, !.returns = TRUE]
      [] op = RETURN -> [Operation(2, 0) EXCEPT !.mem = TRUE, !.halts = TRUE]
      [] OTHER -> InvalidOperation

\* On the modelled opcodes the homestead table adds nothing to frontier's
\* (DELEGATECALL is not modelled).
homesteadInstructionSet(op) == frontierInstructionSet(op)

byzantiumInstructionSet(op) ==
    CASE op = STATICCALL ->
            [Operation(6, 1) EXCEPT !.mem = TRUE, !.returns = TRUE]
      [] op = REVERT ->
            [Operation(2, 0) EXCEPT !.mem = TRUE, !.reverts = TRUE,
                                    !.returns = TRUE]
      [] OTHER -> homesteadInstructionSet(op)

\* A table a caller supplies in Config.JumpTable: the Byzantium table in
\* which JUMP is also flagged halts and, when reverts is set, reverts.
flaggedInstructionSet(op, reverts) ==
    IF op = JUMP
    THEN [byzantiumInstructionSet(op) EXCEPT !.halts = TRUE, !.reverts = reverts]
    ELSE byzantiumInstructionSet(op)

TableNamed(name, op) ==
    CASE name = "byzantium" -> byzantiumInstructionSet(op)
      [] name = "homestead" -> homesteadInstructionSet(op)
      [] name = "jumpHalts" -> flaggedInstructionSet(op, FALSE)
      [] name = "jumpReverts" -> flaggedInstructionSet(op, TRUE)
      [] OTHER -> frontierInstructionSet(op)

\* NewInterpreter: a table the caller left uninitialised ("default") is set
\* from the chain configuration.
NewInterpreter(jt, byz, home) ==
    IF jt = "default"
    THEN IF byz THEN "byzantium" ELSE IF home THEN "homestead" ELSE "frontier"
    ELSE jt

JumpTable(op) == TableNamed(NewInterpreter(cfg.JumpTable, IsByzantium, IsHomestead), op)

\* Contract.GetOp: the byte at pc, STOP beyond the end of the code.
GetOp(c, pc) == IF pc < Len(c) THEN c[pc + 1] ELSE STOP

\* makeStackFunc(pop, push).
validateStack(operation, stack) ==
    IF Len(stack) < operation.pop THEN ErrStackUnderflow
    ELSE IF Len(stack) + operation.push - operation.pop > StackLimit
    THEN ErrStackLimit
    ELSE NoErr

\* (mutant) a value-transferring CALL is not restricted.
enforceRestrictions_WritesOnly(byz, ro, op, operation, stack) ==
    IF byz /\ ro /\ operation.writes
    THEN errWriteProtection
    ELSE NoErr

enforceRestrictions(byz, ro, op, operation, stack) ==
    IF byz /\ ro /\ (operation.writes \/ (op = CALL /\ Back(stack, 2) # 0))
    THEN errWriteProtection
    ELSE NoErr

\* calcMemSize(off, l).
calcMemSize(off, l) == IF l = 0 THEN 0 ELSE off + l

Max(x, y) == IF x > y THEN x ELSE y

\* operation.memorySize(stack).
memorySize(op, stack) ==
    CASE op = MSTORE -> calcMemSize(Back(stack, 0), 32)
      [] op \in {RETURN, REVERT} -> calcMemSize(Back(stack, 0), Back(stack, 1))
      [] op = CALL ->
            Max(calcMemSize(Back(stack, 5), Back(stack, 6)),
                calcMemSize(Back(stack, 3), Back(stack, 4)))
      [] op = STATICCALL ->
            Max(calcMemSize(Back(stack, 4), Back(stack, 5)),
                calcMemSize(Back(stack, 2), Back(stack, 3)))
      [] OTHER -> 0

MemFee(words) == words * MemoryGas + (words * words) \div QuadCoeffDiv

\* memoryGasCost(mem, newMemSize).
memoryGasCost(mem, newMemSize) ==
    IF newMemSize = 0 THEN 0
    ELSE IF toWordSize(newMemSize) * 32 > Len(mem)
    THEN MemFee(toWordSize(newMemSize)) - MemFee(Len(mem) \div 32)
    ELSE 0

SLoad(st, a, loc) == IF loc \in DOMAIN st[a] THEN st[a][loc] ELSE 0

\* operation.gasCost: [cost, refund], refund being what the cost function
\* adds to the refund counter of the state.
gasCost(op, st, f, memSize) ==
    LET mg == memoryGasCost(f.mem, memSize)
    IN  CASE op = STOP -> [cost |-> 0, refund |-> 0]
          [] op \in {ADD, NOT, PUSH1} -> [cost |-> GasFastestStep, refund |-> 0]
          [] op = POP -> [cost |-> GasQuickStep, refund |-> 0]
          [] op = MSTORE -> [cost |-> GasFastestStep + mg, refund |-> 0]
          [] op = SSTORE ->
                LET cur == SLoad(st, f.addr, Back(f.stack, 0))
                    val == Back(f.stack, 1)
                IN  IF cur = 0 /\ val # 0
                    THEN [cost |-> SstoreSetGas, refund |-> 0]
                    ELSE IF cur # 0 /\ val = 0
                    THEN [cost |-> SstoreResetGas, refund |-> SstoreRefundGas]
                    ELSE [cost |-> SstoreResetGas, refund |-> 0]
          [] op = JUMP -> [cost |-> GasMidStep, refund |-> 0]
          [] op = JUMPDEST -> [cost |-> JumpdestGas, refund |-> 0]
          [] op = CALL ->
                [cost |-> CallGas + mg + Back(f.stack, 0)
                          + (IF Back(f.stack, 2) # 0
                             THEN CallValueTransferGas ELSE 0),
                 refund |-> 0]
          [] op = STATICCALL ->
                [cost |-> CallGas + mg + Back(f.stack, 0), refund |-> 0]
          [] OTHER -> [cost |-> mg, refund |-> 0]

(***************************************************************************)
(* The EVM and the interpreter, written over a record M of what they read  *)
(* and write: frames, depth, readOnly, returnData and the world state      *)
(* (balance, nonce, storage, refund).                                      *)
(***************************************************************************)
Machine ==
    [frames |-> frames, depth |-> depth, readOnly |-> readOnly,
     returnData |-> returnData, balance |-> balance, nonce |-> nonce,
     storage |-> storage, refund |-> refund, debug |-> cfg.Debug,
     tracer |-> tracer]

SetMachine(M) ==
    /\ frames' = M.frames
    /\ depth' = M.depth
    /\ readOnly' = M.readOnly
    /\ returnData' = M.returnData
    /\ tracer' = M.tracer
    /\ balance' = M.balance
    /\ nonce' = M.nonce
    /\ storage' = M.storage
    /\ refund' = M.refund

Top(M) == M.frames[Len(M.frames)]
SetTop(M, f) == [M EXCEPT !.frames[Len(M.frames)] = f]

\* The address a stack word denotes.
AddrOf(v) == CASE v = 1 -> "k" [] v = 2 -> "a" [] OTHER -> "b"

\* Tracer.CaptureState(evm, pc, op, gas, cost, memory, stack, contract,
\* depth, err): the tracer keeps what it is shown.
CaptureState(pc, op, gas, cost, mem, stack, d, err) ==
    [captured |-> TRUE, pc |-> pc, op |-> op, gas |-> gas, cost |-> cost,
     mem |-> mem, stack |-> stack, depth |-> d, err |-> err]

\* (mutant) the deferred function does not decrement the depth.
RunReturn_NoDecrement(M, f, ret, err) ==
    SetTop(M, [f EXCEPT !.status = "returned", !.ret = ret, !.err = err])

\* Run returns (ret, err).  The deferred functions run last registered
\* first: with the tracer enabled an error of a step that was not logged is
\* captured, then the depth is decremented.
RunReturn(M, f, ret, err) ==
    LET M1 == IF err # NoErr /\ ~f.logged /\ M.debug
              THEN [M EXCEPT !.tracer =
                       CaptureState(f.pcCopy, GetOp(f.code, f.pc), f.gasCopy,
                                    f.cost, f.mem, f.stackCopy, M.depth, err)]
              ELSE M
    IN  [SetTop(M1, [f EXCEPT !.status = "returned", !.ret = ret, !.err = err])
            EXCEPT !.depth = @ - 1]

\* (mutant) the flags of the operation are looked at before the error of
\* the executor.
AfterExecute_FlagsFirst(M, f, operation, res, err) ==
    LET M1 == IF operation.returns THEN [M EXCEPT !.returnData = res] ELSE M
    IN  IF operation.reverts THEN RunReturn(M1, f, res, errExecutionReverted)
        ELSE IF operation.halts THEN RunReturn(M1, f, res, NoErr)
        ELSE IF err # NoErr THEN RunReturn(M1, f, Nil, err)
        ELSE IF ~operation.jumps THEN SetTop(M1, [f EXCEPT !.pc = @ + 1])
        ELSE SetTop(M1, f)

\* Run, after the executor returned (res, err).
AfterExecute(M, f, operation, res, err) ==
    LET M1 == IF operation.returns THEN [M EXCEPT !.returnData = res] ELSE M
    IN  IF err # NoErr THEN RunReturn(M1, f, Nil, err)
        ELSE IF operation.reverts THEN RunReturn(M1, f, res, errExecutionReverted)
        ELSE IF operation.halts THEN RunReturn(M1, f, res, NoErr)
        ELSE IF ~operation.jumps THEN SetTop(M1, [f EXCEPT !.pc = @ + 1])
        ELSE SetTop(M1, f)

\* (mutant) Run enters its loop whether the contract has code or not.
RunEnter_RunEmpty(M, f) ==
    [M EXCEPT !.depth = @ + 1, !.returnData = Nil, !.frames = Append(@, f)]

\* (mutant) Run enters the frame without incrementing the depth.
RunEnter_NoIncrement(M, f) ==
    LET M1 == [M EXCEPT !.returnData = Nil, !.frames = Append(@, f)]
    IN  IF f.code = << >> THEN RunReturn(M1, f, Nil, NoErr) ELSE M1

\* The entry of Run on the new frame f: depth++, the return data of the
\* previous call is reset, and a contract without code returns at once.
RunEnter(M, f) ==
    LET M1 == [M EXCEPT !.depth = @ + 1, !.returnData = Nil,
                        !.frames = Append(@, f)]
    IN  IF f.code = << >> THEN RunReturn(M1, f, Nil, NoErr) ELSE M1

Transfer(bal, from, to, value) ==
    [x \in DOMAIN bal |->
        bal[x] - (IF x = from THEN value ELSE 0) + (IF x = to THEN value ELSE 0)]

\* evm.Call / evm.StaticCall / evm.Create up to and including the entry of
\* Run.
\* [M, imm, out]: imm when the call returned out without entering a frame.
EnterFrame(M, kind, caller, addr, c, gas, value) ==
    IF M.depth > CallCreateDepth
    THEN [M |-> M, imm |-> TRUE,
          out |-> [ret |-> Nil, gas |-> gas, err |-> ErrDepth, called |-> TRUE]]
    ELSE IF kind # "static" /\ M.balance[caller] < value
    THEN [M |-> M, imm |-> TRUE,
          out |-> [ret |-> Nil, gas |-> gas, err |-> ErrInsufficientBalance,
                   called |-> TRUE]]
    ELSE
    LET M1 == IF kind = "create" THEN [M EXCEPT !.nonce[caller] = @ + 1] ELSE M
        fr == [addr |-> addr, caller |-> caller, code |-> c, pc |-> 0,
               stack |-> << >>, mem |-> << >>, gas |-> gas, kind |-> kind,
               snap |-> [balance |-> M1.balance, storage |-> M1.storage,
                         refund |-> M1.refund],
               setRO |-> (kind = "static" /\ ~M.readOnly),
               status |-> "running",
               ret |-> Nil, err |-> NoErr, retOff |-> 0, retSize |-> 0,
               steps |-> 0, cost |-> 0, logged |-> FALSE, pcCopy |-> 0,
               gasCopy |-> 0, stackCopy |-> << >>]
    IN  [M |-> RunEnter([M1 EXCEPT
                  !.balance = IF kind = "static" THEN @
                              ELSE Transfer(@, caller, addr, value),
                  !.readOnly = @ \/ kind = "static"], fr),
         imm |-> FALSE,
         out |-> [ret |-> Nil, gas |-> gas, err |-> NoErr, called |-> TRUE]]

\* opCall / opStaticCall after evm.Call returned out, then the rest of the
\* caller's step.
CallFinish(M, out) ==
    LET p == Top(M)
        p1 == [p EXCEPT
                 !.stack = Push(@, IF out.err # NoErr THEN 0 ELSE 1),
                 !.mem = IF out.err \in {NoErr, errExecutionReverted}
                         THEN MemSet(@, p.retOff, p.retSize, out.ret) ELSE @,
                 !.gas = @ + out.gas,
                 !.status = "running"]
    IN  AfterExecute(M, p1, JumpTable(GetOp(p.code, p.pc)), out.ret, NoErr)

\* (mutant) the gas a failed frame has left is handed back whatever the
\* error.
LeaveFrame_KeepGas(M) ==
    LET f == Top(M)
        M1 == [M EXCEPT
                 !.frames = SubSeq(@, 1, Len(@) - 1),
                 !.readOnly = IF f.setRO THEN FALSE ELSE @,
                 !.balance = IF f.err # NoErr THEN f.snap.balance ELSE @,
                 !.storage = IF f.err # NoErr THEN f.snap.storage ELSE @,
                 !.refund = IF f.err # NoErr THEN f.snap.refund ELSE @]
    IN  [M |-> M1,
         out |-> [ret |-> f.ret, gas |-> f.gas, err |-> f.err, called |-> TRUE]]

\* evm.Call after Run returned: revert to the snapshot on error, consume
\* all gas on an error that is not a revert.  [M, out].
LeaveFrame(M) ==
    LET f == Top(M)
        M1 == [M EXCEPT
                 !.frames = SubSeq(@, 1, Len(@) - 1),
                 !.readOnly = IF f.setRO THEN FALSE ELSE @,
                 !.balance = IF f.err # NoErr THEN f.snap.balance ELSE @,
                 !.storage = IF f.err # NoErr THEN f.snap.storage ELSE @,
                 !.refund = IF f.err # NoErr THEN f.snap.refund ELSE @]
    IN  [M |-> M1,
         out |-> [ret |-> f.ret,
                  gas |-> IF f.err \notin {NoErr, errExecutionReverted}
                          THEN 0 ELSE f.gas,
                  err |-> f.err, called |-> TRUE]]

\* Whether position pos of code c holds an opcode (not the operand of a
\* PUSH1), scanning from position at.
RECURSIVE IsCode(_, _, _)
IsCode(c, pos, at) ==
    IF at > pos THEN FALSE
    ELSE IF at = pos THEN TRUE
    ELSE IsCode(c, pos, IF GetOp(c, at) = PUSH1 THEN at + 2 ELSE at + 1)

validJumpdest(c, pos) ==
    pos < Len(c) /\ c[pos + 1] = JUMPDEST /\ IsCode(c, pos, 0)

\* operation.execute and what follows it in the step.
Execute(M, f, op, operation) ==
    CASE op = ADD ->
            AfterExecute(M, [f EXCEPT !.stack =
                Push(PopN(@, 2), (Back(@, 0) + Back(@, 1)) % WordLimit)],
                operation, Nil, NoErr)
      [] op = NOT ->
            AfterExecute(M, [f EXCEPT !.stack =
                Push(PopN(@, 1), WordLimit - 1 - Back(@, 0))],
                operation, Nil, NoErr)
      [] op = POP ->
            AfterExecute(M, [f EXCEPT !.stack = PopN(@, 1)], operation, Nil, NoErr)
      [] op = MSTORE ->
            AfterExecute(M, [f EXCEPT !.stack = PopN(@, 2),
                !.mem = MemSet32(@, Back(f.stack, 0), Back(f.stack, 1))],
                operation, Nil, NoErr)
      [] op = SSTORE ->
            LET loc == Back(f.stack, 0)
                val == Back(f.stack, 1)
                old == M.storage[f.addr]
                new == [k \in DOMAIN old \cup {loc} |->
                            IF k = loc THEN val ELSE old[k]]
            IN  AfterExecute([M EXCEPT !.storage[f.addr] = new],
                    [f EXCEPT !.stack = PopN(@, 2)], operation, Nil, NoErr)
      [] op = JUMP ->
            LET pos == Back(f.stack, 0)
                f1 == [f EXCEPT !.stack = PopN(@, 1)]
            IN  IF validJumpdest(f.code, pos)
                THEN AfterExecute(M, [f1 EXCEPT !.pc = pos], operation, Nil, NoErr)
                ELSE AfterExecute(M, f1, operation, Nil, ErrInvalidJump)
      [] op = PUSH1 ->
            AfterExecute(M, [f EXCEPT !.pc = @ + 1,
                !.stack = Push(@, IF f.pc + 1 < Len(f.code)
                                  THEN f.code[f.pc + 2] ELSE 0)],
                operation, Nil, NoErr)
      [] op = CALL ->
            LET f1 == [f EXCEPT !.stack = PopN(@, 7), !.status = "calling",
                                !.retOff = Back(f.stack, 5),
                                !.retSize = Back(f.stack, 6)]
                to == AddrOf(Back(f.stack, 1))
                e == EnterFrame(SetTop(M, f1), "call", f.addr, to, code[to],
                                Back(f.stack, 0), Back(f.stack, 2))
            IN  IF e.imm THEN CallFinish(e.M, e.out) ELSE e.M
      [] op = STATICCALL ->
            LET f1 == [f EXCEPT !.stack = PopN(@, 6), !.status = "calling",
                                !.retOff = Back(f.stack, 4),
                                !.retSize = Back(f.stack, 5)]
                to == AddrOf(Back(f.stack, 1))
                e == EnterFrame(SetTop(M, f1), "static", f.addr, to, code[to],
                                Back(f.stack, 0), 0)
            IN  IF e.imm THEN CallFinish(e.M, e.out) ELSE e.M
      [] op \in {RETURN, REVERT} ->
            AfterExecute(M, [f EXCEPT !.stack = PopN(@, 2)], operation,
                MemGet(f.mem, Back(f.stack, 0), Back(f.stack, 1)), NoErr)
      [] OTHER -> AfterExecute(M, f, operation, Nil, NoErr)

\* The step after its gas was deducted and its memory resized: with the
\* tracer enabled the step is captured, then the executor runs.
TraceAndExecute(M, f, op, operation) ==
    IF M.debug
    THEN Execute([M EXCEPT !.tracer =
                     CaptureState(f.pc, op, f.gasCopy, f.cost, f.mem,
                                  f.stackCopy, M.depth, NoErr)],
                 [f EXCEPT !.logged = TRUE], op, operation)
    ELSE Execute(M, f, op, operation)

\* (mutant) the memory is resized before the gas is deducted.
ChargeAndExecute_ResizeFirst(M, f, op, operation, memSz) ==
    LET fm == [f EXCEPT !.mem = IF memSz > 0 THEN Resize(@, memSz) ELSE @]
    IN  IF cfg.DisableGasMetering
        THEN TraceAndExecute(M, fm, op, operation)
        ELSE
        LET gc == gasCost(op, M.storage, f, memSz)
            M1 == [M EXCEPT !.refund = @ + gc.refund]
            fc == [fm EXCEPT !.cost = gc.cost]
        IN  IF f.gas < gc.cost
            THEN RunReturn(M1, fc, Nil, ErrOutOfGas)
            ELSE TraceAndExecute(M1, [fc EXCEPT !.gas = @ - gc.cost], op, operation)

\* Gas metering and memory expansion of the step, then the executor.
ChargeAndExecute(M, f, op, operation, memSz) ==
    IF cfg.DisableGasMetering
    THEN TraceAndExecute(M,
             [f EXCEPT !.mem = IF memSz > 0 THEN Resize(@, memSz) ELSE @],
             op, operation)
    ELSE
    LET gc == gasCost(op, M.storage, f, memSz)
        M1 == [M EXCEPT !.refund = @ + gc.refund]
        fc == [f EXCEPT !.cost = gc.cost]
    IN  IF f.gas < gc.cost
        THEN RunReturn(M1, fc, Nil, ErrOutOfGas)
        ELSE TraceAndExecute(M1,
                 [fc EXCEPT !.gas = @ - gc.cost,
                            !.mem = IF memSz > 0 THEN Resize(@, memSz) ELSE @],
                 op, operation)

\* The frame after the step's gas was deducted and its memory resized (the
\* frame itself when the gas does not suffice).
Charged(M, f, op, memSz) ==
    LET gc == gasCost(op, M.storage, f, memSz)
    IN  IF cfg.DisableGasMetering \/ f.gas < gc.cost THEN f
        ELSE [f EXCEPT !.gas = @ - gc.cost,
                       !.mem = IF memSz > 0 THEN Resize(@, memSz) ELSE @]

\* (mutant) with the tracer enabled the stack is moved, not copied, into
\* the snapshot.
LoopHead_MoveStack(M) ==
    LET f == [Top(M) EXCEPT !.steps = Min(@ + 1, StepCap)]
    IN  IF M.debug
        THEN [f EXCEPT !.logged = FALSE, !.pcCopy = f.pc, !.gasCopy = f.gas,
                       !.stackCopy = f.stack, !.stack = << >>]
        ELSE f

\* The innermost frame at the head of the loop, the abort flag being clear:
\* one more step is counted (up to StepCap) and, with the tracer enabled,
\* the pc, the gas and the stack are copied for the tracer.
LoopHead(M) ==
    LET f == [Top(M) EXCEPT !.steps = Min(@ + 1, StepCap)]
    IN  IF M.debug
        THEN [f EXCEPT !.logged = FALSE, !.pcCopy = f.pc, !.gasCopy = f.gas,
                       !.stackCopy = f.stack]
        ELSE f

\* (mutant) the write restrictions are enforced after the gas was deducted
\* and the memory resized.
RunStep_RestrictLate(M, ab) ==
    LET f == LoopHead(M)
        op == GetOp(f.code, f.pc)
        operation == JumpTable(op)
        verr == validateStack(operation, f.stack)
        rerr == enforceRestrictions(IsByzantium, M.readOnly, op, operation, f.stack)
        memSize == IF operation.mem THEN memorySize(op, f.stack) ELSE 0
        memSz == toWordSize(memSize) * 32
    IN  IF ab THEN RunReturn(M, Top(M), Nil, NoErr)
        ELSE IF ~operation.valid THEN RunReturn(M, f, Nil, ErrInvalidOpcode)
        ELSE IF verr # NoErr THEN RunReturn(M, f, Nil, verr)
        ELSE IF memSize >= WordLimit \/ memSz >= WordLimit
        THEN RunReturn(M, f, Nil, errGasUintOverflow)
        ELSE IF rerr # NoErr THEN RunReturn(M, Charged(M, f, op, memSz), Nil, rerr)
        ELSE ChargeAndExecute(M, f, op, operation, memSz)

\* (mutant) a step that fails the stack validation is still charged the
\* quick-step gas.
RunStep_ValidateLate(M, ab) ==
    LET f == LoopHead(M)
        op == GetOp(f.code, f.pc)
        operation == JumpTable(op)
        verr == validateStack(operation, f.stack)
        rerr == enforceRestrictions(IsByzantium, M.readOnly, op, operation, f.stack)
        memSize == IF operation.mem /\ verr = NoErr
                   THEN memorySize(op, f.stack) ELSE 0
        memSz == toWordSize(memSize) * 32
    IN  IF ab THEN RunReturn(M, Top(M), Nil, NoErr)
        ELSE IF ~operation.valid THEN RunReturn(M, f, Nil, ErrInvalidOpcode)
        ELSE IF verr # NoErr
        THEN RunReturn(M, [f EXCEPT !.gas = IF @ >= GasQuickStep
                                             THEN @ - GasQuickStep ELSE @],
                       Nil, verr)
        ELSE IF rerr # NoErr THEN RunReturn(M, f, Nil, rerr)
        ELSE IF memSize >= WordLimit \/ memSz >= WordLimit
        THEN RunReturn(M, f, Nil, errGasUintOverflow)
        ELSE ChargeAndExecute(M, f, op, operation, memSz)

\* (mutant) the loop does not test the abort flag.
RunStep_IgnoreAbort(M, ab) ==
    LET f == LoopHead(M)
        op == GetOp(f.code, f.pc)
        operation == JumpTable(op)
        verr == validateStack(operation, f.stack)
        rerr == enforceRestrictions(IsByzantium, M.readOnly, op, operation, f.stack)
        memSize == IF operation.mem THEN memorySize(op, f.stack) ELSE 0
        memSz == toWordSize(memSize) * 32
    IN  IF ~operation.valid THEN RunReturn(M, f, Nil, ErrInvalidOpcode)
        ELSE IF verr # NoErr THEN RunReturn(M, f, Nil, verr)
        ELSE IF rerr # NoErr THEN RunReturn(M, f, Nil, rerr)
        ELSE IF memSize >= WordLimit \/ memSz >= WordLimit
        THEN RunReturn(M, f, Nil, errGasUintOverflow)
        ELSE ChargeAndExecute(M, f, op, operation, memSz)

\* One iteration of the main loop of Interpreter.Run on the innermost
\* frame; ab is the value read from evm.abort at the head of the loop.
RunStep(M, ab) ==
    LET f == LoopHead(M)
        op == GetOp(f.code, f.pc)
        operation == JumpTable(op)
        verr == validateStack(operation, f.stack)
        rerr == enforceRestrictions(IsByzantium, M.readOnly, op, operation, f.stack)
        memSize == IF operation.mem THEN memorySize(op, f.stack) ELSE 0
        memSz == toWordSize(memSize) * 32
    IN  IF ab THEN RunReturn(M, Top(M), Nil, NoErr)
        ELSE IF ~operation.valid THEN RunReturn(M, f, Nil, ErrInvalidOpcode)
        ELSE IF verr # NoErr THEN RunReturn(M, f, Nil, verr)
        ELSE IF rerr # NoErr THEN RunReturn(M, f, Nil, rerr)
        ELSE IF memSize >= WordLimit \/ memSz >= WordLimit
        THEN RunReturn(M, f, Nil, errGasUintOverflow)
        ELSE ChargeAndExecute(M, f, op, operation, memSz)

(***************************************************************************)
(* Inputs.                                                                 *)
(***************************************************************************)
RuleSets == {"frontier", "homestead", "byzantium"}

\* Payloads: byte strings over {0, 1} (as init code: STOP and ADD).
RECURSIVE SeqsUpTo(_, _)
SeqsUpTo(S, n) ==
    IF n = 0 THEN {<< >>}
    ELSE LET shorter == SeqsUpTo(S, n - 1)
         IN  shorter \cup {Append(q, x) : q \in {r \in shorter : Len(r) = n - 1}, x \in S}

Payloads == SeqsUpTo({0, 1}, MaxDataLen)

\* Programs.  Push(v) is PUSH1 v.
PushOp(v) == <<PUSH1, v>>
CallProgram(gas, to, value) ==
    PushOp(0) \o PushOp(0) \o PushOp(0) \o PushOp(0) \o PushOp(value)
        \o PushOp(to) \o PushOp(gas) \o <<CALL>>
StaticCallProgram(gas, to) ==
    PushOp(0) \o PushOp(0) \o PushOp(0) \o PushOp(0)
        \o PushOp(to) \o PushOp(gas) \o <<STATICCALL>>
StoreProgram(val) == PushOp(val) \o PushOp(0) \o <<SSTORE>>
ReturnProgram == PushOp(7) \o PushOp(0) \o <<MSTORE>> \o PushOp(32) \o PushOp(0) \o <<RETURN>>
RevertProgram == PushOp(0) \o PushOp(0) \o <<REVERT>>
LoopProgram == <<JUMPDEST>> \o PushOp(1) \o PushOp(0) \o <<JUMP>>
\* JUMP to the JUMPDEST that ends the code.
JumpProgram == PushOp(3) \o <<JUMP, JUMPDEST>>
\* MSTORE at the offset NOT 0, the largest word.
MemOverflowProgram == PushOp(0) \o PushOp(0) \o <<NOT>> \o <<MSTORE>>
\* JUMP into the operand of a PUSH1.
BadJumpProgram == PushOp(JUMPDEST) \o PushOp(1) \o <<JUMP>>

\* Code of the accounts in a block run: <<code of "k", code of "b">>.
BlockCodes ==
    {<<<<INVALID>>, Nil>>, <<StoreProgram(0), Nil>>,
     <<StoreProgram(2), Nil>>, <<RevertProgram, Nil>>,
     <<StaticCallProgram(200, 0), StoreProgram(1)>>}

GasLimits ==
    {20000, TxGas, TxGas + TxDataNonZeroGas + 6000, 60000, 120000, WordLimit}
GasPrices == {0, 2}
Values == {0, 5}
InitBalances == {TxGas, 120000}
BlockGasLimits == {100000}

Messages ==
    [from : {"a"}, to : {NoAddr, "b", "k"}, gas : GasLimits,
     gasPrice : GasPrices, value : Values, nonce : {0, 1, 2},
     checkNonce : {TRUE}, data : Payloads]
    \cup
    [from : {"a"}, to : {NoAddr, "b", "k"}, gas : GasLimits,
     gasPrice : GasPrices, value : Values, nonce : {0},
     checkNonce : {FALSE}, data : Payloads]

NoMsg ==
    [from |-> "a", to |-> NoAddr, gas |-> 0, gasPrice |-> 0, value |-> 0,
     nonce |-> 0, checkNonce |-> FALSE, data |-> << >>]

NoResult ==
    [ret |-> Nil, requiredGas |-> 0, usedGas |-> 0, failed |-> FALSE,
     err |-> NoErr, nilGas |-> TRUE]

\* vmRet before the EVM was called.
NoOut == [ret |-> Nil, gas |-> 0, err |-> NoErr, called |-> FALSE]

EmptyStorage == [x \in Addr |-> << >>]

\* tracer before the first CaptureState.
NoCapture ==
    [captured |-> FALSE, pc |-> 0, op |-> STOP, gas |-> 0, cost |-> 0,
     mem |-> << >>, stack |-> << >>, depth |-> 0, err |-> NoErr]

\* firstRun before a message was applied.
NoRun ==
    [done |-> FALSE, result |-> NoResult, balance |-> << >>, nonce |-> << >>,
     storage |-> << >>, refund |-> 0, gp |-> 0, pre |-> << >>]

\* config.DAOForkBlock = nil.
NoBlock == -1

\* processRet before Process returned.
NoReturn ==
    [returned |-> FALSE, receipts |-> Nil, usedGas |-> 0, nilGas |-> TRUE,
     err |-> NoErr]

(***************************************************************************)
(* container/heap over a nonceHeap.  A heap h is the slice as a sequence;  *)
(* positions are Go's, from 0: position p is h[p + 1].  Less is <.         *)
(***************************************************************************)
\* nonceHeap.Swap
Swap(h, i, j) == [h EXCEPT ![i + 1] = h[j + 1], ![j + 1] = h[i + 1]]

\* heap.up: the element at j moves up while it is less than its parent.
RECURSIVE up(_, _)
up(h, j) ==
    IF j = 0 THEN h
    ELSE LET i == (j - 1) \div 2
         IN  IF ~(h[j + 1] < h[i + 1]) THEN h ELSE up(Swap(h, i, j), i)

\* heap.down: the element at i moves down, within the first n positions,
\* while its smaller child is less than it.
RECURSIVE down(_, _, _)
down(h, i, n) ==
    LET j1 == 2 * i + 1
        j2 == j1 + 1
        j == IF j2 < n /\ h[j2 + 1] < h[j1 + 1] THEN j2 ELSE j1
    IN  IF j1 >= n THEN h
        ELSE IF ~(h[j + 1] < h[i + 1]) THEN h
        ELSE down(Swap(h, i, j), j, n)

\* heap.Push: nonceHeap.Push appends, then up.
heapPush(h, x) == up(Append(h, x), Len(h))

\* heap.Pop: [h, x], the heap without its root and the root.
heapPop(h) ==
    LET n == Len(h) - 1
        h1 == down(Swap(h, 0, n), 0, n)
    IN  [h |-> SubSeq(h1, 1, n), x |-> h1[n + 1]]

\* heap.Remove of the element at position i.
heapRemove(h, i) ==
    LET n == Len(h) - 1
        s == Swap(h, i, n)
        d == down(s, i, n)
        h1 == IF n = i THEN h ELSE IF d # s THEN d ELSE up(s, i)
    IN  SubSeq(h1, 1, n)

RECURSIVE heapInitFrom(_, _)
heapInitFrom(h, i) ==
    IF i < 0 THEN h ELSE heapInitFrom(down(h, i, Len(h)), i - 1)

\* heap.Init
heapInit(h) == heapInitFrom(h, Len(h) \div 2 - 1)

\* The elements of a sequence.
Range(s) == {s[i] : i \in DOMAIN s}

\* The sequences that list the elements of the set S once each: the orders
\* in which a range over a map with these keys can visit them.
RECURSIVE Orders(_)
Orders(S) ==
    IF S = {} THEN {<< >>}
    ELSE UNION {{<<x>> \o o : o \in Orders(S \ {x})} : x \in S}

\* The nonces of S in increasing order.
RECURSIVE SortNonces(_)
SortNonces(S) ==
    IF S = {} THEN << >>
    ELSE LET x == CHOOSE y \in S : \A z \in S : y <= z
         IN  <<x>> \o SortNonces(S \ {x})

\* sort.Sort of a slice of nonces.
RECURSIVE SortSlice(_)
SortSlice(h) ==
    IF h = << >> THEN << >>
    ELSE LET i == CHOOSE k \in DOMAIN h : \A j \in DOMAIN h : h[k] <= h[j]
         IN  <<h[i]>> \o SortSlice(SubSeq(h, 1, i - 1) \o SubSeq(h, i + 1, Len(h)))

(***************************************************************************)
(* Transactions of one account, and txSortedMap: m is [items, index,       *)
(* cache].                                                                 *)
(***************************************************************************)
Nonces == 0 .. MaxNonce
Prices == {1, 2, 3}
Gases == {1, 2}
\* A transaction has the lowest gas limit or the lowest price.
Txs ==
    {tx \in [nonce : Nonces, gasPrice : Prices, gas : Gases, value : {0}] :
        tx.gas = 1 \/ tx.gasPrice = 1}

\* tx.Cost(): gasPrice * gas + value.
TxCost(tx) == tx.gasPrice * tx.gas + tx.value

\* A slice that is nil.
NilCache == [set |-> FALSE, txs |-> << >>]

\* The transactions of the map at the nonces ns, in that order.
TxsAt(its, ns) == [i \in 1 .. Len(ns) |-> its[ns[i]]]

\* The map without the nonces of D.
Without(its, D) == [n \in DOMAIN its \ D |-> its[n]]

newTxSortedMap == [items |-> << >>, index |-> << >>, cache |-> NilCache]

\* m.items[nc], as a sequence: empty for nil.
Get(m, nc) == IF nc \in DOMAIN m.items THEN <<m.items[nc]>> ELSE << >>

\* (mutant) Put keeps the cache.
Put_KeepCache(m, tx) ==
    [items |-> [n \in DOMAIN m.items \cup {tx.nonce} |->
                   IF n = tx.nonce THEN tx ELSE m.items[n]],
     index |-> IF tx.nonce \notin DOMAIN m.items
               THEN heapPush(m.index, tx.nonce) ELSE m.index,
     cache |-> m.cache]

Put(m, tx) ==
    [items |-> [n \in DOMAIN m.items \cup {tx.nonce} |->
                   IF n = tx.nonce THEN tx ELSE m.items[n]],
     index |-> IF tx.nonce \notin DOMAIN m.items
               THEN heapPush(m.index, tx.nonce) ELSE m.index,
     cache |-> NilCache]

\* The loop of Forward: heap items are popped until the threshold is
\* reached.  [m, removed]
RECURSIVE ForwardLoop(_, _, _)
ForwardLoop(m, threshold, removed) ==
    IF Len(m.index) > 0 /\ m.index[1] < threshold
    THEN LET p == heapPop(m.index)
         IN  ForwardLoop([m EXCEPT !.index = p.h,
                                   !.items = Without(@, {p.x})],
                         threshold, Append(removed, m.items[p.x]))
    ELSE [m |-> m, removed |-> removed]

Forward(m, threshold) ==
    LET r == ForwardLoop(m, threshold, << >>)
    IN  [m |-> IF r.m.cache.set
               THEN [r.m EXCEPT !.cache.txs =
                        SubSeq(@, Len(r.removed) + 1, Len(@))]
               ELSE r.m,
         removed |-> r.removed]

\* Filter with a filter function that holds of the transactions at the
\* nonces of D: the outcomes [m, removed], one for every order in which the
\* two range loops over the map can visit its keys.
Filter(m, D) ==
    IF D = {}
    THEN {[m |-> m, removed |-> << >>]}
    ELSE {[m |-> [items |-> Without(m.items, D),
                  index |-> heapInit(ix),
                  cache |-> NilCache],
           removed |-> TxsAt(m.items, r)] :
             r \in Orders(D), ix \in Orders(DOMAIN m.items \ D)}

\* Cap; the threshold is not negative.  [m, drops]
Cap(m, threshold) ==
    IF Cardinality(DOMAIN m.items) <= threshold
    THEN [m |-> m, drops |-> << >>]
    ELSE LET sorted == SortSlice(m.index)
             size == Cardinality(DOMAIN m.items)
             dropped == [i \in 1 .. size - threshold |-> sorted[size + 1 - i]]
         IN  [m |-> [items |-> Without(m.items, Range(dropped)),
                     index |-> heapInit(SubSeq(sorted, 1, threshold)),
                     cache |-> IF m.cache.set
                               THEN [m.cache EXCEPT !.txs =
                                        SubSeq(@, 1, Len(@) - Len(dropped))]
                               ELSE m.cache],
              drops |-> TxsAt(m.items, dropped)]

\* The position of the first element of h that equals x, Len(h) if none.
RECURSIVE Find(_, _, _)
Find(h, x, i) ==
    IF i >= Len(h) THEN Len(h)
    ELSE IF h[i + 1] = x THEN i ELSE Find(h, x, i + 1)

\* Remove.  [m, ok]
Remove(m, nc) ==
    IF nc \notin DOMAIN m.items
    THEN [m |-> m, ok |-> FALSE]
    ELSE LET i == Find(m.index, nc, 0)
         IN  [m |-> [items |-> Without(m.items, {nc}),
                     index |-> IF i < Len(m.index) THEN heapRemove(m.index, i)
                               ELSE m.index,
                     cache |-> NilCache],
              ok |-> TRUE]

\* The loop of Ready.  [m, ready]
RECURSIVE ReadyLoop(_, _, _)
ReadyLoop(m, next, ready) ==
    IF Len(m.index) > 0 /\ m.index[1] = next
    THEN ReadyLoop([m EXCEPT !.items = Without(@, {next}),
                             !.index = heapPop(@).h],
                   next + 1, Append(ready, m.items[next]))
    ELSE [m |-> m, ready |-> ready]

\* Ready.  [m, ready]
Ready(m, start) ==
    IF Len(m.index) = 0 \/ m.index[1] > start
    THEN [m |-> m, ready |-> << >>]
    ELSE LET r == ReadyLoop(m, m.index[1], << >>)
         IN  [m |-> [r.m EXCEPT !.cache = NilCache], ready |-> r.ready]

\* Flatten.  [m, txs]
Flatten(m) ==
    LET c == IF m.cache.set THEN m.cache
             ELSE [set |-> TRUE,
                   txs |-> TxsAt(m.items, SortNonces(DOMAIN m.items))]
    IN  [m |-> [m EXCEPT !.cache = c], txs |-> c.txs]

(***************************************************************************)
(* The type cache of package rlp.  The types are the keys of the cache;    *)
(* a pointer to a typeinfo is a number, 0 is nil.                          *)
(***************************************************************************)
\* U: a type with a coder of its own; X: a type rlp cannot code; S: a
\* struct with a field of type U and a field of type *S; PS: *S; T: a struct
\* with a field of type S and a field of type X.
TypeKeys == {"U", "X", "S", "PS", "T"}

\* The types whose typeinfo the generation of a type looks up, in order:
\* the fields of a struct (structFields), the element of a pointer.
Components(k) ==
    CASE k = "S" -> <<"U", "PS">>
      [] k = "PS" -> <<"S">>
      [] k = "T" -> <<"S", "X">>
      [] OTHER -> << >>

\* The types for which makeDecoder returns an error of its own.
Unsupported == {"X"}

Goroutines == 1 .. NumGoroutines

NoGoroutine == 0

\* A goroutine outside cachedTypeInfo.
IdleGoroutine ==
    [pc |-> "idle", key |-> "U", info |-> 0, stack |-> << >>, ret |-> 0,
     err |-> FALSE, calls |-> 0]

RlpIdle ==
    /\ typeCache = [k \in TypeKeys |-> 0]
    /\ typeCacheMutex = [readers |-> {}, writer |-> NoGoroutine, pending |-> NoGoroutine]
    /\ infos = << >>
    /\ gos = [g \in Goroutines |-> IdleGoroutine]
    /\ generated = [k \in TypeKeys |-> 0]
    /\ received = [k \in TypeKeys |-> {}]

(***************************************************************************)
(* txList: l is [strict, txs, costcap, gascap], txs a txSortedMap.         *)
(***************************************************************************)
newTxList(s) == [strict |-> s, txs |-> newTxSortedMap, costcap |-> 0, gascap |-> 0]

\* The price bumps (percent) that are tried: two usual ones and the largest
\* uint64.
PriceBumps == {75, 100, WordLimit - 1}

\* int64(x): the word x read as a signed integer.
Int64(x) ==
    LET y == x % WordLimit
    IN  IF y >= WordLimit \div 2 THEN y - WordLimit ELSE y

\* (mutant) Add leaves the caps of the list alone.
Add_KeepCaps(l, tx, priceBump) ==
    LET old == Get(l.txs, tx.nonce)
        threshold == (old[1].gasPrice * Int64(100 + Int64(priceBump))) \div 100
    IN  IF old # << >> /\ (old[1].gasPrice >= tx.gasPrice \/ threshold > tx.gasPrice)
        THEN [l |-> l, ok |-> FALSE, old |-> << >>]
        ELSE [l |-> [l EXCEPT !.txs = Put(@, tx)], ok |-> TRUE, old |-> old]

\* Add.  [l, ok, old], old a sequence: empty for nil.
Add(l, tx, priceBump) ==
    LET old == Get(l.txs, tx.nonce)
        threshold == (old[1].gasPrice * Int64(100 + Int64(priceBump))) \div 100
    IN  IF old # << >> /\ (old[1].gasPrice >= tx.gasPrice \/ threshold > tx.gasPrice)
        THEN [l |-> l, ok |-> FALSE, old |-> << >>]
        ELSE [l |-> [l EXCEPT !.txs = Put(@, tx),
                              !.costcap = IF @ < TxCost(tx) THEN TxCost(tx) ELSE @,
                              !.gascap = IF @ < tx.gas THEN tx.gas ELSE @],
              ok |-> TRUE, old |-> old]

\* The nonces of the transactions of the map that exceed a limit.
Exceeding(m, costLimit, gasLim) ==
    {n \in DOMAIN m.items : TxCost(m.items[n]) > costLimit \/ m.items[n].gas > gasLim}

\* The smallest nonce of a slice of transactions that is not empty.
Lowest(removed) ==
    CHOOSE n \in {removed[i].nonce : i \in DOMAIN removed} :
        \A i \in DOMAIN removed : n <= removed[i].nonce

\* txList.Filter: the outcomes [l, removed, invalids].
ListFilter(l, costLimit, gasLim) ==
    IF l.costcap <= costLimit /\ l.gascap <= gasLim
    THEN {[l |-> l, removed |-> << >>, invalids |-> << >>]}
    ELSE LET l1 == [l EXCEPT !.costcap = costLimit, !.gascap = gasLim]
         IN  UNION {
               IF l.strict /\ Len(f.removed) > 0
               THEN {[l |-> [l1 EXCEPT !.txs = g.m], removed |-> f.removed,
                      invalids |-> g.removed] :
                        g \in Filter(f.m, {n \in DOMAIN f.m.items :
                                             n > Lowest(f.removed)})}
               ELSE {[l |-> [l1 EXCEPT !.txs = f.m], removed |-> f.removed,
                      invalids |-> << >>]} :
               f \in Filter(l.txs, Exceeding(l.txs, costLimit, gasLim))}

\* (mutant) Remove filters the later transactions whether the list is
\* strict or not.
ListRemove_AlwaysStrict(l, tx) ==
    LET r == Remove(l.txs, tx.nonce)
    IN  IF ~r.ok THEN {[l |-> l, ok |-> FALSE, invalids |-> << >>]}
        ELSE {[l |-> [l EXCEPT !.txs = f.m], ok |-> TRUE, invalids |-> f.removed] :
                 f \in Filter(r.m, {n \in DOMAIN r.m.items : n > tx.nonce})}

\* txList.Remove: the outcomes [l, ok, invalids].
ListRemove(l, tx) ==
    LET r == Remove(l.txs, tx.nonce)
    IN  IF ~r.ok THEN {[l |-> l, ok |-> FALSE, invalids |-> << >>]}
        ELSE IF l.strict
        THEN {[l |-> [l EXCEPT !.txs = f.m], ok |-> TRUE, invalids |-> f.removed] :
                 f \in Filter(r.m, {n \in DOMAIN r.m.items : n > tx.nonce})}
        ELSE {[l |-> [l EXCEPT !.txs = r.m], ok |-> TRUE, invalids |-> << >>]}

\* The list as the operations read it, and as they leave it.
List ==
    [strict |-> strict,
     txs |-> [items |-> items, index |-> index, cache |-> cache],
     costcap |-> costcap, gascap |-> gascap]

SetList(l) ==
    /\ strict' = l.strict
    /\ items' = l.txs.items
    /\ index' = l.txs.index
    /\ cache' = l.txs.cache
    /\ costcap' = l.costcap
    /\ gascap' = l.gascap

\* listRet before any call.
NoCall ==
    [op |-> "none", tx |-> << >>, arg |-> 0, arg2 |-> 0, ok |-> FALSE,
     out |-> << >>, out2 |-> << >>]

\* A new list and an empty type cache that nobody uses.
LibIdle ==
    /\ RlpIdle
    /\ strict = FALSE
    /\ items = << >>
    /\ index = << >>
    /\ cache = NilCache
    /\ costcap = 0
    /\ gascap = 0
    /\ listRet = NoCall

(***************************************************************************)
(* Initial states.                                                         *)
(***************************************************************************)
\* The execution core before Process is called.
EvmCommon ==
    /\ nonce = [x \in Addr |-> IF x = "a" THEN 1 ELSE 0]
    /\ storage = [EmptyStorage EXCEPT !["k"] = (0 :> 1)]
    /\ refund = 0
    /\ rules \in RuleSets
    /\ txIndex = 0
    /\ receipts = << >>
    /\ totalUsedGas = 0
    /\ procErr = NoErr
    /\ processRet = NoReturn
    /\ phase = "idle"
    /\ msg = NoMsg
    /\ stGas = 0
    /\ initialGas = 0
    /\ result = NoResult
    /\ frames = << >>
    /\ depth = 0
    /\ abort = FALSE
    /\ readOnly = FALSE
    /\ returnData = Nil
    /\ tracer = NoCapture
    /\ vmRet = NoOut
    /\ calls = << >>
    /\ firstRun = NoRun
    /\ number = 1
    /\ daoFork = [support |-> TRUE, block |-> 2]

InitCommon == EvmCommon /\ LibIdle

\* Process: a new block; the pool starts at the block's gas limit.
Init ==
    /\ InitCommon
    /\ \E b \in InitBalances : balance = [x \in Addr |-> IF x = "a" THEN b ELSE 0]
    /\ \E c \in BlockCodes :
          code = [x \in Addr |-> IF x = "k" THEN c[1] ELSE IF x = "b" THEN c[2] ELSE Nil]
    /\ coinbase \in {"a", "m"}
    /\ cfg = [Debug |-> FALSE, DisableGasMetering |-> FALSE, JumpTable |-> "default"]
    /\ block \in {<< >>} \cup {<<m>> : m \in Messages}
    /\ gasLimit \in BlockGasLimits
    /\ gp = AddGas(0, gasLimit)
    /\ pstate = "new"
    /\ pre = [balance |-> balance, nonce |-> nonce, storage |-> storage,
              refund |-> refund, gp |-> gp]

(***************************************************************************)
(* Block processor and state transition.                                   *)
(***************************************************************************)
\* misc.ApplyDAOHardFork: the balance of the drained account goes to the
\* refund contract.
DAODrainAccount == "k"
DAORefundContract == "n"
ApplyDAOHardFork(bal) ==
    [x \in DOMAIN bal |->
        IF x = DAODrainAccount THEN 0
        ELSE IF x = DAORefundContract THEN bal[x] + bal[DAODrainAccount]
        ELSE bal[x]]

\* (mutant) the state is patched in every block from the fork block on.
Process_Begin_FromFork ==
    /\ pstate = "new"
    /\ pstate' = "run"
    /\ IF daoFork.support /\ daoFork.block # NoBlock /\ daoFork.block <= number
       THEN /\ balance' = ApplyDAOHardFork(balance)
            /\ calls' = Append(calls, [op |-> "ApplyDAOHardFork", index |-> 0])
       ELSE UNCHANGED <<balance, calls>>
    /\ UNCHANGED <<nonce, storage, refund, code, chainVars, libVars, block, gp, txIndex,
                   receipts, totalUsedGas, procErr, processRet, firstRun, stVars,
                   vmVars>>

\* Process up to its loop: the state is patched when the block is the block
\* of the DAO hard fork.
Process_Begin ==
    /\ pstate = "new"
    /\ pstate' = "run"
    /\ IF daoFork.support /\ daoFork.block # NoBlock /\ daoFork.block = number
       THEN /\ balance' = ApplyDAOHardFork(balance)
            /\ calls' = Append(calls, [op |-> "ApplyDAOHardFork", index |-> 0])
       ELSE UNCHANGED <<balance, calls>>
    /\ UNCHANGED <<nonce, storage, refund, code, chainVars, libVars, block, gp, txIndex,
                   receipts, totalUsedGas, procErr, processRet, firstRun, stVars,
                   vmVars>>

\* (mutant) the new state transition starts with the gas the previous one
\* had left.
Process_ApplyTransaction_KeepGas ==
    /\ pstate = "run"
    /\ phase = "idle"
    /\ txIndex < Len(block)
    /\ LET m == block[txIndex + 1]
           s0 == [balance |-> balance, nonce |-> nonce, gp |-> gp, gas |-> stGas,
                  initialGas |-> 0, err |-> NoErr]
           s1 == preCheck(s0, m)
       IN  /\ msg' = m
           /\ pre' = [balance |-> balance, nonce |-> nonce, storage |-> storage,
                      refund |-> refund, gp |-> gp]
           /\ gp' = s1.gp
           /\ initialGas' = s1.initialGas
           /\ stGas' = s1.gas
           /\ balance' = s1.balance
           /\ vmRet' = NoOut
           /\ IF s1.err # NoErr
              THEN result' = [NoResult EXCEPT !.err = s1.err] /\ phase' = "returned"
              ELSE result' = NoResult /\ phase' = "bought"
    /\ calls' = calls \o <<[op |-> "Prepare", index |-> txIndex],
                         [op |-> "ApplyTransaction", index |-> txIndex]>>
    /\ UNCHANGED <<nonce, storage, refund, code, chainVars, libVars, block, txIndex,
                   receipts, totalUsedGas, pstate, procErr, processRet, firstRun,
                   frames, depth, abort, readOnly, returnData, tracer>>

\* The loop of Process prepares the state for the next transaction
\* (statedb.Prepare), then ApplyTransaction: ApplyMessage,
\* NewStateTransition and the preCheck of TransitionDb.
Process_ApplyTransaction ==
    /\ pstate = "run"
    /\ phase = "idle"
    /\ txIndex < Len(block)
    /\ LET m == block[txIndex + 1]
           s0 == [balance |-> balance, nonce |-> nonce, gp |-> gp, gas |-> 0,
                  initialGas |-> 0, err |-> NoErr]
           s1 == preCheck(s0, m)
       IN  /\ msg' = m
           /\ pre' = [balance |-> balance, nonce |-> nonce, storage |-> storage,
                      refund |-> refund, gp |-> gp]
           /\ gp' = s1.gp
           /\ initialGas' = s1.initialGas
           /\ stGas' = s1.gas
           /\ balance' = s1.balance
           /\ vmRet' = NoOut
           /\ IF s1.err # NoErr
              THEN result' = [NoResult EXCEPT !.err = s1.err] /\ phase' = "returned"
              ELSE result' = NoResult /\ phase' = "bought"
    /\ calls' = calls \o <<[op |-> "Prepare", index |-> txIndex],
                         [op |-> "ApplyTransaction", index |-> txIndex]>>
    /\ UNCHANGED <<nonce, storage, refund, code, chainVars, libVars, block, txIndex,
                   receipts, totalUsedGas, pstate, procErr, processRet, firstRun,
                   frames, depth, abort, readOnly, returnData, tracer>>

\* (mutant) the nonce of the sender is not incremented before the call.
TransitionDb_Dispatch_NoNonce ==
    /\ phase = "bought"
    /\ LET m == msg
           s1 == [balance |-> balance, nonce |-> nonce, gp |-> gp,
                  gas |-> stGas, initialGas |-> initialGas, err |-> NoErr]
           contractCreation == m.to = NoAddr
           ig == IntrinsicGas(m.data, contractCreation, IsHomestead)
           s2 == IF ig >= WordLimit THEN [s1 EXCEPT !.err = ErrOutOfGas]
                 ELSE useGas(s1, ig)
           e == IF contractCreation
                THEN EnterFrame(Machine, "create", m.from, "n", m.data, s2.gas,
                                m.value)
                ELSE EnterFrame(Machine, "call", m.from, m.to, code[m.to],
                                s2.gas, m.value)
       IN  /\ stGas' = s2.gas
           /\ IF s2.err # NoErr
              THEN /\ result' = [NoResult EXCEPT !.err = s2.err]
                   /\ phase' = "returned"
                   /\ UNCHANGED <<balance, nonce, storage, refund, frames, depth,
                                  readOnly, returnData, tracer, vmRet>>
              ELSE /\ SetMachine(e.M)
                   /\ result' = NoResult
                   /\ IF e.imm
                      THEN phase' = "post" /\ vmRet' = e.out
                      ELSE phase' = "vm" /\ vmRet' = NoOut
    /\ UNCHANGED <<code, chainVars, libVars, procVars, msg, initialGas, pre, abort>>

\* TransitionDb from the intrinsic gas to the call into the EVM.
TransitionDb_Dispatch ==
    /\ phase = "bought"
    /\ LET m == msg
           s1 == [balance |-> balance, nonce |-> nonce, gp |-> gp,
                  gas |-> stGas, initialGas |-> initialGas, err |-> NoErr]
           contractCreation == m.to = NoAddr
           ig == IntrinsicGas(m.data, contractCreation, IsHomestead)
           s2 == IF ig >= WordLimit THEN [s1 EXCEPT !.err = ErrOutOfGas]
                 ELSE useGas(s1, ig)
           e == IF contractCreation
                THEN EnterFrame(Machine, "create", m.from, "n", m.data, s2.gas,
                                m.value)
                ELSE EnterFrame([Machine EXCEPT !.nonce[m.from] = @ + 1], "call",
                                m.from, m.to, code[m.to], s2.gas, m.value)
       IN  /\ stGas' = s2.gas
           /\ IF s2.err # NoErr
              THEN /\ result' = [NoResult EXCEPT !.err = s2.err]
                   /\ phase' = "returned"
                   /\ UNCHANGED <<balance, nonce, storage, refund, frames, depth,
                                  readOnly, returnData, tracer, vmRet>>
              ELSE /\ SetMachine(e.M)
                   /\ result' = NoResult
                   /\ IF e.imm
                      THEN phase' = "post" /\ vmRet' = e.out
                      ELSE phase' = "vm" /\ vmRet' = NoOut
    /\ UNCHANGED <<code, chainVars, libVars, procVars, msg, initialGas, pre, abort>>

\* (mutant) the beneficiary is paid for the gas used before the refund.
TransitionDb_Finish_PayRequired ==
    /\ phase = "post"
    /\ LET s == [balance |-> balance, nonce |-> nonce, gp |-> gp,
                 gas |-> vmRet.gas, initialGas |-> initialGas, err |-> NoErr]
           requiredGas == gasUsed(s)
           s1 == refundGas(s, msg, refund)
       IN  IF isConsensusError(vmRet.err)
           THEN /\ stGas' = vmRet.gas
                /\ result' = [NoResult EXCEPT !.err = vmRet.err]
                /\ UNCHANGED <<balance, gp>>
           ELSE /\ stGas' = s1.gas
                /\ gp' = s1.gp
                /\ balance' = [s1.balance EXCEPT
                                 ![coinbase] = @ + requiredGas * msg.gasPrice]
                /\ result' = [ret |-> vmRet.ret, requiredGas |-> requiredGas,
                              usedGas |-> gasUsed(s1),
                              failed |-> vmRet.err # NoErr, err |-> NoErr,
                              nilGas |-> FALSE]
    /\ phase' = "returned"
    /\ UNCHANGED <<nonce, storage, refund, code, chainVars, libVars, block, txIndex,
                   receipts, totalUsedGas, pstate, procErr, processRet, calls,
                   firstRun, msg, initialGas, pre, vmVars>>

\* TransitionDb after the EVM returned vmRet.
TransitionDb_Finish ==
    /\ phase = "post"
    /\ LET s == [balance |-> balance, nonce |-> nonce, gp |-> gp,
                 gas |-> vmRet.gas, initialGas |-> initialGas, err |-> NoErr]
           requiredGas == gasUsed(s)
           s1 == refundGas(s, msg, refund)
       IN  IF isConsensusError(vmRet.err)
           THEN /\ stGas' = vmRet.gas
                /\ result' = [NoResult EXCEPT !.err = vmRet.err]
                /\ UNCHANGED <<balance, gp>>
           ELSE /\ stGas' = s1.gas
                /\ gp' = s1.gp
                /\ balance' = [s1.balance EXCEPT
                                 ![coinbase] = @ + gasUsed(s1) * msg.gasPrice]
                /\ result' = [ret |-> vmRet.ret, requiredGas |-> requiredGas,
                              usedGas |-> gasUsed(s1),
                              failed |-> vmRet.err # NoErr, err |-> NoErr,
                              nilGas |-> FALSE]
    /\ phase' = "returned"
    /\ UNCHANGED <<nonce, storage, refund, code, chainVars, libVars, block, txIndex,
                   receipts, totalUsedGas, pstate, procErr, processRet, calls,
                   firstRun, msg, initialGas, pre, vmVars>>

\* (mutant) a transaction that returned an error is skipped and the block
\* goes on.
Process_Receipt_SkipFailed ==
    /\ pstate = "run"
    /\ phase = "returned"
    /\ IF result.err # NoErr
       THEN /\ txIndex' = txIndex + 1
            /\ UNCHANGED <<pstate, procErr, processRet, receipts, totalUsedGas>>
       ELSE /\ totalUsedGas' = totalUsedGas + result.usedGas
            /\ receipts' = Append(receipts,
                  [failed |-> result.failed,
                   cumulativeGasUsed |-> totalUsedGas + result.usedGas,
                   gasUsed |-> result.usedGas,
                   contractAddress |-> IF msg.to = NoAddr THEN "n" ELSE NoAddr])
            /\ txIndex' = txIndex + 1
            /\ UNCHANGED <<pstate, procErr, processRet>>
    /\ phase' = "idle"
    /\ refund' = IF result.err # NoErr THEN refund ELSE 0
    /\ UNCHANGED <<balance, nonce, storage, code, chainVars, libVars, block, gp, calls,
                   firstRun, msg, stGas, initialGas, result, pre, vmVars>>

\* (mutant) the receipt carries the gas of its own transaction as the
\* cumulative gas.
Process_Receipt_OwnGas ==
    /\ pstate = "run"
    /\ phase = "returned"
    /\ IF result.err # NoErr
       THEN /\ pstate' = "aborted"
            /\ procErr' = result.err
            /\ processRet' = [returned |-> TRUE, receipts |-> Nil, usedGas |-> 0,
                               nilGas |-> TRUE, err |-> result.err]
            /\ UNCHANGED <<txIndex, receipts, totalUsedGas>>
       ELSE /\ totalUsedGas' = totalUsedGas + result.usedGas
            /\ receipts' = Append(receipts,
                  [failed |-> result.failed,
                   cumulativeGasUsed |-> result.usedGas,
                   gasUsed |-> result.usedGas,
                   contractAddress |-> IF msg.to = NoAddr THEN "n" ELSE NoAddr])
            /\ txIndex' = txIndex + 1
            /\ UNCHANGED <<pstate, procErr, processRet>>
    /\ phase' = "idle"
    /\ refund' = IF result.err # NoErr THEN refund ELSE 0
    /\ UNCHANGED <<balance, nonce, storage, code, chainVars, libVars, block, gp, calls,
                   firstRun, msg, stGas, initialGas, result, pre, vmVars>>

\* ApplyTransaction after ApplyMessage returned, and the loop of Process:
\* an error ends the block, otherwise the state is finalised (which clears
\* its refund counter) and the receipt is appended.
Process_Receipt ==
    /\ pstate = "run"
    /\ phase = "returned"
    /\ IF result.err # NoErr
       THEN /\ pstate' = "aborted"
            /\ procErr' = result.err
            /\ processRet' = [returned |-> TRUE, receipts |-> Nil, usedGas |-> 0,
                               nilGas |-> TRUE, err |-> result.err]
            /\ UNCHANGED <<txIndex, receipts, totalUsedGas>>
       ELSE /\ totalUsedGas' = totalUsedGas + result.usedGas
            /\ receipts' = Append(receipts,
                  [failed |-> result.failed,
                   cumulativeGasUsed |-> totalUsedGas + result.usedGas,
                   gasUsed |-> result.usedGas,
                   contractAddress |-> IF msg.to = NoAddr THEN "n" ELSE NoAddr])
            /\ txIndex' = txIndex + 1
            /\ UNCHANGED <<pstate, procErr, processRet>>
    /\ phase' = "idle"
    /\ refund' = IF result.err # NoErr THEN refund ELSE 0
    /\ UNCHANGED <<balance, nonce, storage, code, chainVars, libVars, block, gp, calls,
                   firstRun, msg, stGas, initialGas, result, pre, vmVars>>

\* Process after the last transaction: engine.Finalize.
Process_Finalize ==
    /\ pstate = "run"
    /\ phase = "idle"
    /\ txIndex = Len(block)
    /\ pstate' = "finalized"
    /\ processRet' = [returned |-> TRUE, receipts |-> receipts,
                       usedGas |-> totalUsedGas, nilGas |-> FALSE, err |-> NoErr]
    /\ calls' = Append(calls, [op |-> "Finalize", index |-> txIndex])
    /\ UNCHANGED <<worldVars, chainVars, libVars, block, gp, txIndex, receipts, totalUsedGas,
                   procErr, firstRun, stVars, vmVars>>

(***************************************************************************)
(* Interpreter actions.                                                    *)
(***************************************************************************)
\* One iteration of the loop of Run on the innermost frame.
Run_Step ==
    /\ frames # << >>
    /\ frames[Len(frames)].status = "running"
    /\ SetMachine(RunStep(Machine, abort))
    /\ UNCHANGED <<code, chainVars, libVars, procVars, stVars, abort, vmRet>>

\* The innermost Run has returned: its evm.Call/StaticCall/Create returns
\* to the calling opcode or, for the outermost frame, to the caller of the
\* EVM.
Call_Return ==
    /\ frames # << >>
    /\ frames[Len(frames)].status = "returned"
    /\ LET l == LeaveFrame(Machine)
       IN  IF l.M.frames = << >>
           THEN /\ SetMachine(l.M)
                /\ vmRet' = l.out
                /\ phase' = IF pstate = "vmonly" THEN "vmdone" ELSE "post"
           ELSE /\ SetMachine(CallFinish(l.M, l.out))
                /\ UNCHANGED <<vmRet, phase>>
    /\ UNCHANGED <<code, chainVars, libVars, procVars, msg, stGas, initialGas, result,
                   pre, abort>>

\* A caller of the EVM ("a") calls contract "k": evm.Call or evm.StaticCall;
\* stGas keeps the gas the caller passed.
VM_Call(kind, gas, value) ==
    /\ pstate = "vmonly"
    /\ phase = "idle"
    /\ LET e == EnterFrame(Machine, kind, "a", "k", code["k"], gas,
                           IF kind = "static" THEN 0 ELSE value)
       IN  /\ SetMachine(e.M)
           /\ stGas' = gas
           /\ IF e.imm
              THEN phase' = "vmdone" /\ vmRet' = e.out
              ELSE phase' = "vm" /\ vmRet' = NoOut
    /\ UNCHANGED <<code, chainVars, libVars, procVars, msg, initialGas, result, pre,
                   abort>>

\* evm.Cancel: a supervisor sets the abort flag while the EVM runs.
Cancel ==
    /\ pstate = "vmonly"
    /\ phase = "vm"
    /\ ~abort
    /\ abort' = TRUE
    /\ UNCHANGED <<worldVars, chainVars, libVars, procVars, stVars, frames, depth,
                   readOnly, returnData, tracer, vmRet>>

Next ==
    \/ Process_Begin
    \/ Process_ApplyTransaction
    \/ TransitionDb_Dispatch
    \/ TransitionDb_Finish
    \/ Process_Receipt
    \/ Process_Finalize
    \/ Run_Step
    \/ Call_Return

Spec == Init /\ [][Next]_vars

\* Blocks of up to MaxTxs transactions of "a": plain transfers to "b" and
\* calls of the contract "k".
TxMessages ==
    [from : {"a"}, to : {"b", "k"}, gas : {20000, 30000, 60000}, gasPrice : {1},
     value : {0}, nonce : {0}, checkNonce : {FALSE}, data : {<< >>}]
    \cup
    [from : {"a"}, to : {"b"}, gas : {30000}, gasPrice : {1},
     value : {0}, nonce : {1}, checkNonce : {TRUE}, data : {<< >>}]

TxCodes == {<<INVALID>>, StoreProgram(0), RevertProgram}

InitBlock ==
    /\ InitCommon
    /\ balance = [x \in Addr |-> IF x = "a" THEN 200000 ELSE 0]
    /\ \E c \in TxCodes : code = [x \in Addr |-> IF x = "k" THEN c ELSE Nil]
    /\ coinbase = "m"
    /\ cfg = [Debug |-> FALSE, DisableGasMetering |-> FALSE, JumpTable |-> "default"]
    /\ block \in SeqsUpTo(TxMessages, MaxTxs)
    /\ gasLimit \in BlockGasLimits
    /\ gp = AddGas(0, gasLimit)
    /\ pstate = "new"
    /\ pre = [balance |-> balance, nonce |-> nonce, storage |-> storage,
              refund |-> refund, gp |-> gp]

SpecBlock == InitBlock /\ [][Next]_vars

\* Blocks at, before and after the block of the DAO hard fork, with and
\* without support for the fork.
ForkConfigs == [support : BOOLEAN, block : {NoBlock, 2}]
BlockNumbers == {1, 2, 3}

ForkMessages ==
    [from : {"a"}, to : {"b", "k"}, gas : {30000}, gasPrice : {1}, value : {0},
     nonce : {0}, checkNonce : {FALSE}, data : {<< >>}]
    \cup
    [from : {"a"}, to : {"b"}, gas : {30000}, gasPrice : {1}, value : {0},
     nonce : {1}, checkNonce : {TRUE}, data : {<< >>}]

InitFork ==
    /\ nonce = [x \in Addr |-> IF x = "a" THEN 1 ELSE 0]
    /\ storage = [EmptyStorage EXCEPT !["k"] = (0 :> 1)]
    /\ refund = 0
    /\ rules \in RuleSets
    /\ txIndex = 0
    /\ receipts = << >>
    /\ totalUsedGas = 0
    /\ procErr = NoErr
    /\ processRet = NoReturn
    /\ phase = "idle"
    /\ msg = NoMsg
    /\ stGas = 0
    /\ initialGas = 0
    /\ result = NoResult
    /\ frames = << >>
    /\ depth = 0
    /\ abort = FALSE
    /\ readOnly = FALSE
    /\ returnData = Nil
    /\ tracer = NoCapture
    /\ LibIdle
    /\ vmRet = NoOut
    /\ calls = << >>
    /\ firstRun = NoRun
    /\ number \in BlockNumbers
    /\ daoFork \in ForkConfigs
    /\ balance = [x \in Addr |-> IF x = "a" THEN 200000 ELSE IF x = "k" THEN 3 ELSE 0]
    /\ code = [x \in Addr |-> IF x = "k" THEN <<INVALID>> ELSE Nil]
    /\ coinbase = "m"
    /\ cfg = [Debug |-> FALSE, DisableGasMetering |-> FALSE, JumpTable |-> "default"]
    /\ block \in SeqsUpTo(ForkMessages, MaxTxs)
    /\ gasLimit \in BlockGasLimits
    /\ gp = AddGas(0, gasLimit)
    /\ pstate = "new"
    /\ pre = [balance |-> balance, nonce |-> nonce, storage |-> storage,
              refund |-> refund, gp |-> gp]

SpecFork == InitFork /\ [][Next]_vars

\* One message of "a", an account that has not sent anything yet, to the
\* plain account "b" or to the contract "k".
ScenarioMessages ==
    [from : {"a"}, to : {"b", "k"}, gas : {TxGas, 30000}, gasPrice : {1, 2},
     value : {0, 5}, nonce : {0}, checkNonce : BOOLEAN, data : Payloads]

ScenarioBalances == {TxGas, TxGas + 5, 1000000}

InitScenario ==
    /\ nonce = [x \in Addr |-> 0]
    /\ storage = EmptyStorage
    /\ refund = 0
    /\ rules \in RuleSets
    /\ txIndex = 0
    /\ receipts = << >>
    /\ totalUsedGas = 0
    /\ procErr = NoErr
    /\ processRet = NoReturn
    /\ phase = "idle"
    /\ msg = NoMsg
    /\ stGas = 0
    /\ initialGas = 0
    /\ result = NoResult
    /\ frames = << >>
    /\ depth = 0
    /\ abort = FALSE
    /\ readOnly = FALSE
    /\ returnData = Nil
    /\ tracer = NoCapture
    /\ LibIdle
    /\ vmRet = NoOut
    /\ calls = << >>
    /\ firstRun = NoRun
    /\ number = 1
    /\ daoFork = [support |-> TRUE, block |-> 2]
    /\ \E ba \in ScenarioBalances, bb \in {0, 7} :
          balance = [x \in Addr |-> IF x = "a" THEN ba ELSE IF x = "b" THEN bb ELSE 0]
    /\ \E c \in {<<INVALID>>, ReturnProgram} :
          code = [x \in Addr |-> IF x = "k" THEN c ELSE Nil]
    /\ coinbase \in {"a", "b", "m"}
    /\ cfg = [Debug |-> FALSE, DisableGasMetering |-> FALSE, JumpTable |-> "default"]
    /\ \E m \in ScenarioMessages : block = <<m>>
    /\ gasLimit \in BlockGasLimits
    /\ gp = AddGas(0, gasLimit)
    /\ pstate = "new"
    /\ pre = [balance |-> balance, nonce |-> nonce, storage |-> storage,
              refund |-> refund, gp |-> gp]

SpecScenario == InitScenario /\ [][Next]_vars

\* The message that was applied is applied once more, with the same EVM, to
\* the world state and the pool it was first applied to: what the first
\* application returned and left behind is kept in firstRun, the world state
\* and the pool are put back, and ApplyTransaction is entered again.
Replay ==
    /\ pstate = "run"
    /\ phase = "returned"
    /\ ~firstRun.done
    /\ firstRun' = [done |-> TRUE, result |-> result, balance |-> balance,
                    nonce |-> nonce, storage |-> storage, refund |-> refund,
                    gp |-> gp, pre |-> pre]
    /\ balance' = pre.balance
    /\ nonce' = pre.nonce
    /\ storage' = pre.storage
    /\ refund' = pre.refund
    /\ gp' = pre.gp
    /\ phase' = "idle"
    /\ UNCHANGED <<code, chainVars, libVars, block, txIndex, receipts, totalUsedGas, pstate,
                   procErr, processRet, calls, msg, stGas, initialGas, result, pre,
                   vmVars>>

\* One message of "a", applied twice.
ReplayMessages ==
    [from : {"a"}, to : {NoAddr, "b", "k"}, gas : {TxGas, 60000, 120000},
     gasPrice : {2}, value : {0, 5}, nonce : {1}, checkNonce : {TRUE},
     data : Payloads]

InitReplay ==
    /\ InitCommon
    /\ \E b \in InitBalances : balance = [x \in Addr |-> IF x = "a" THEN b ELSE 0]
    /\ \E c \in BlockCodes :
          code = [x \in Addr |-> IF x = "k" THEN c[1] ELSE IF x = "b" THEN c[2] ELSE Nil]
    /\ coinbase \in {"a", "m"}
    /\ cfg = [Debug |-> FALSE, DisableGasMetering |-> FALSE, JumpTable |-> "default"]
    /\ \E m \in ReplayMessages : block = <<m>>
    /\ gasLimit \in BlockGasLimits
    /\ gp = AddGas(0, gasLimit)
    /\ pstate = "new"
    /\ pre = [balance |-> balance, nonce |-> nonce, storage |-> storage,
              refund |-> refund, gp |-> gp]

NextReplay ==
    \/ Next
    \/ Replay

SpecReplay == InitReplay /\ [][NextReplay]_vars

\* Code of the accounts in an interpreter run: <<code of "k", code of "b">>.
VMCodes ==
    {<<pk, Nil>> : pk \in {<<INVALID>>, <<POP>>, <<ADD>>, <<JUMPDEST>>,
                           StoreProgram(0),
                           StoreProgram(2), ReturnProgram, RevertProgram,
                           LoopProgram, MemOverflowProgram, BadJumpProgram,
                           CallProgram(0, 0, 0),
                           CallProgram(100, 0, 1), CallProgram(0, 1, 0),
                           CallProgram(0, 1, 1)}}
    \cup {<<StaticCallProgram(100, 0), pb>> :
              pb \in {Nil, StoreProgram(1), CallProgram(0, 2, 1),
                      CallProgram(0, 2, 0)}}
    \cup {<<CallProgram(100, 0, 0), pb>> :
              pb \in {StoreProgram(1), RevertProgram, ReturnProgram, LoopProgram}}
    \cup {<<CallProgram(10, 0, 0), ReturnProgram>>}

VMGas == {0, 20, 200, 30000}
VMKinds == {"call", "static"}
VMValues == {0, 1}

InitVM ==
    /\ InitCommon
    /\ balance = [x \in Addr |-> IF x = "a" THEN 10 ELSE IF x = "k" THEN 1 ELSE 0]
    /\ \E c \in VMCodes :
          code = [x \in Addr |-> IF x = "k" THEN c[1] ELSE IF x = "b" THEN c[2] ELSE Nil]
    /\ coinbase = "m"
    /\ cfg \in [Debug : {FALSE}, DisableGasMetering : BOOLEAN,
                 JumpTable : {"default", "byzantium"}]
    /\ block = << >>
    /\ gasLimit = 0
    /\ gp = 0
    /\ pstate = "vmonly"
    /\ pre = [balance |-> balance, nonce |-> nonce, storage |-> storage,
              refund |-> refund, gp |-> gp]

NextVM ==
    \/ \E kind \in VMKinds, gas \in VMGas, value \in VMValues :
          VM_Call(kind, gas, value)
    \/ Run_Step
    \/ Call_Return
    \/ Cancel

SpecVM == InitVM /\ [][NextVM]_vars

\* Interpreter runs with and without the tracer, on the default table and
\* on tables supplied by the caller.
ProbeCodes ==
    {<<pk, Nil>> : pk \in {<<INVALID>>, <<POP>>, StoreProgram(2), ReturnProgram,
                           RevertProgram, JumpProgram, BadJumpProgram,
                           MemOverflowProgram}}
    \cup {<<CallProgram(100, 0, 0), ReturnProgram>>,
          <<CallProgram(100, 0, 0), BadJumpProgram>>,
          <<StaticCallProgram(100, 0), StoreProgram(1)>>}

InitProbe ==
    /\ InitCommon
    /\ balance = [x \in Addr |-> IF x = "a" THEN 10 ELSE IF x = "k" THEN 1 ELSE 0]
    /\ \E c \in ProbeCodes :
          code = [x \in Addr |-> IF x = "k" THEN c[1] ELSE IF x = "b" THEN c[2] ELSE Nil]
    /\ coinbase = "m"
    /\ cfg \in [Debug : BOOLEAN, DisableGasMetering : BOOLEAN,
                 JumpTable : {"default", "jumpHalts", "jumpReverts"}]
    /\ block = << >>
    /\ gasLimit = 0
    /\ gp = 0
    /\ pstate = "vmonly"
    /\ pre = [balance |-> balance, nonce |-> nonce, storage |-> storage,
              refund |-> refund, gp |-> gp]

SpecProbe == InitProbe /\ [][NextVM]_vars

(***************************************************************************)
(* The transaction list of one account under any sequence of calls.        *)
(***************************************************************************)
FilterCostLimits == {0, 1, 2}
FilterGasLimits == {1, 2}
Thresholds == 0 .. MaxNonce + 1

Called(op, tx, arg, arg2, ok, out, out2) ==
    listRet' = [op |-> op, tx |-> tx, arg |-> arg, arg2 |-> arg2, ok |-> ok,
                out |-> out, out2 |-> out2]

List_Add ==
    /\ \E tx \in Txs, priceBump \in PriceBumps :
          LET r == Add(List, tx, priceBump)
          IN  /\ SetList(r.l)
              /\ Called("Add", <<tx>>, priceBump, 0, r.ok, r.old, << >>)
    /\ UNCHANGED <<evmVars, rlpVars>>

List_Forward ==
    /\ \E threshold \in Thresholds :
          LET r == Forward(List.txs, threshold)
          IN  /\ SetList([List EXCEPT !.txs = r.m])
              /\ Called("Forward", << >>, threshold, 0, TRUE, r.removed, << >>)
    /\ UNCHANGED <<evmVars, rlpVars>>

List_Filter ==
    /\ \E costLimit \in FilterCostLimits, gasLim \in FilterGasLimits :
          \E r \in ListFilter(List, costLimit, gasLim) :
             /\ SetList(r.l)
             /\ Called("Filter", << >>, costLimit, gasLim, TRUE, r.removed,
                       r.invalids)
    /\ UNCHANGED <<evmVars, rlpVars>>

List_Cap ==
    /\ \E threshold \in Thresholds :
          LET r == Cap(List.txs, threshold)
          IN  /\ SetList([List EXCEPT !.txs = r.m])
              /\ Called("Cap", << >>, threshold, 0, TRUE, r.drops, << >>)
    /\ UNCHANGED <<evmVars, rlpVars>>

\* Remove reads the nonce of its transaction only: one transaction of every
\* nonce is tried.
RemoveTxs == {tx \in Txs : tx.gasPrice = 1 /\ tx.gas = 1}

List_Remove ==
    /\ \E tx \in RemoveTxs :
          \E r \in ListRemove(List, tx) :
             /\ SetList(r.l)
             /\ Called("Remove", <<tx>>, 0, 0, r.ok, r.invalids, << >>)
    /\ UNCHANGED <<evmVars, rlpVars>>

List_Ready ==
    /\ \E start \in Nonces :
          LET r == Ready(List.txs, start)
          IN  /\ SetList([List EXCEPT !.txs = r.m])
              /\ Called("Ready", << >>, start, 0, TRUE, r.ready, << >>)
    /\ UNCHANGED <<evmVars, rlpVars>>

List_Flatten ==
    /\ LET r == Flatten(List.txs)
       IN  /\ SetList([List EXCEPT !.txs = r.m])
           /\ Called("Flatten", << >>, 0, 0, TRUE, r.txs, << >>)
    /\ UNCHANGED <<evmVars, rlpVars>>

InitList ==
    /\ EvmCommon
    /\ rules = "byzantium"
    /\ balance = [x \in Addr |-> 0]
    /\ code = [x \in Addr |-> Nil]
    /\ coinbase = "m"
    /\ cfg = [Debug |-> FALSE, DisableGasMetering |-> FALSE, JumpTable |-> "default"]
    /\ block = << >>
    /\ gasLimit = 0
    /\ gp = 0
    /\ pstate = "new"
    /\ pre = [balance |-> balance, nonce |-> nonce, storage |-> storage,
              refund |-> refund, gp |-> gp]
    /\ RlpIdle
    /\ strict \in BOOLEAN
    /\ items = << >>
    /\ index = << >>
    /\ cache = NilCache
    /\ costcap = 0
    /\ gascap = 0
    /\ listRet = NoCall

NextList ==
    \/ List_Add
    \/ List_Forward
    \/ List_Filter
    \/ List_Cap
    \/ List_Remove
    \/ List_Ready
    \/ List_Flatten

SpecList == InitList /\ [][NextList]_vars

(***************************************************************************)
(* Properties of the state transition.                                     *)
(*                                                                         *)
(* While a transaction is being applied (phase # "idle") msg is its        *)
(* message and pre holds the balances, nonces and pool as they were when   *)
(* ApplyTransaction was entered.                                           *)
(***************************************************************************)
Returned == phase = "returned"
Cost == msg.gas * msg.gasPrice
NonceOK == ~msg.checkNonce \/ pre.nonce[msg.from] = msg.nonce
GasFits == msg.gas < WordLimit
HasFunds == pre.balance[msg.from] >= Cost
PoolHas == pre.gp >= msg.gas
MsgIntrinsicGas == IntrinsicGas(msg.data, msg.to = NoAddr, IsHomestead)

\* C1: TransitionDb returns error=nil and failed=true exactly when the
\* call/create path returned a VM error other than insufficient balance,
\* error=nil and failed=false when it returned no error, and a non-nil
\* error when it returned insufficient balance.
C1_OutcomeClassification ==
    Returned =>
        /\ (vmRet.called /\ vmRet.err = NoErr)
              => (result.err = NoErr /\ ~result.failed)
        /\ (vmRet.called /\ vmRet.err \notin {NoErr, ErrInsufficientBalance})
              => (result.err = NoErr /\ result.failed)
        /\ (vmRet.called /\ vmRet.err = ErrInsufficientBalance)
              => (result.err = ErrInsufficientBalance /\ ~result.failed)
        /\ (result.err = NoErr /\ result.failed)
              => (vmRet.called /\ vmRet.err \notin {NoErr, ErrInsufficientBalance})

C1_Witness ==
    /\ Returned
    /\ vmRet.called
    /\ vmRet.err = ErrInvalidOpcode
    /\ result.failed
    /\ result.err = NoErr

\* C2: with nonce checking requested, a message nonce above the sender's
\* nonce is rejected with "nonce too high" and one below it with "nonce too
\* low", leaving balances, nonces and the pool as they were and producing
\* no receipt; a message whose nonce matches and whose sender can pay
\* gasLimit * gasPrice is rejected neither by the nonce check nor by the
\* balance check.
C2_NoncePreCheck ==
    (phase # "idle" \/ pstate = "aborted") =>
        /\ (msg.checkNonce /\ pre.nonce[msg.from] < msg.nonce) =>
              /\ phase \in {"returned", "idle"}
              /\ result.err = ErrNonceTooHigh
              /\ balance = pre.balance /\ nonce = pre.nonce /\ gp = pre.gp
              /\ receipts = << >>
        /\ (msg.checkNonce /\ pre.nonce[msg.from] > msg.nonce) =>
              /\ phase \in {"returned", "idle"}
              /\ result.err = ErrNonceTooLow
              /\ balance = pre.balance /\ nonce = pre.nonce /\ gp = pre.gp
              /\ receipts = << >>
        /\ (msg.checkNonce /\ pre.nonce[msg.from] = msg.nonce /\ HasFunds) =>
              result.err \notin {ErrNonceTooHigh, ErrNonceTooLow,
                                 errInsufficientBalanceForGas}

C2_Witness ==
    /\ pstate = "aborted"
    /\ procErr = ErrNonceTooHigh
    /\ msg.nonce = pre.nonce[msg.from] + 1

\* C3: buyGas checks, in this order, that the gas limit fits 64 bits, that
\* the sender's balance covers gasLimit * gasPrice and that the pool holds
\* gasLimit; a rejection leaves the balances and the pool as they were;
\* only when all three pass is the sender debited by gasLimit * gasPrice,
\* the pool reduced by gasLimit and gasLimit recorded as the initial gas.
C3_BuyGasOrder ==
    /\ (Returned /\ NonceOK /\ ~(GasFits /\ HasFunds /\ PoolHas)) =>
          /\ result.err = IF ~GasFits THEN ErrOutOfGas
                          ELSE IF ~HasFunds THEN errInsufficientBalanceForGas
                          ELSE ErrGasLimitReached
          /\ balance = pre.balance
          /\ gp = pre.gp
          /\ initialGas = 0
    /\ phase = "bought" =>
          /\ NonceOK /\ GasFits /\ HasFunds /\ PoolHas
          /\ balance = [pre.balance EXCEPT ![msg.from] = @ - Cost]
          /\ gp = pre.gp - msg.gas
          /\ initialGas = msg.gas
          /\ stGas = msg.gas

C3_Witness ==
    /\ Returned
    /\ NonceOK /\ GasFits /\ ~HasFunds /\ ~PoolHas
    /\ result.err = errInsufficientBalanceForGas

\* The message passed preCheck with a gas limit below its intrinsic gas.
IntrinsicShortfall ==
    NonceOK /\ GasFits /\ HasFunds /\ PoolHas /\ msg.gas < MsgIntrinsicGas

\* C4 (as claimed): a gas limit below the intrinsic gas fails this
\* transaction only: TransitionDb returns no error and the block processor
\* goes on.
C4_ShortfallIsLocal ==
    /\ (Returned /\ IntrinsicShortfall) => result.err = NoErr
    /\ (phase # "idle" /\ IntrinsicShortfall) => pstate # "aborted"

\* C4 (amended): a gas limit below the intrinsic gas is fatal for the
\* block: TransitionDb returns the out-of-gas error (failed=false) without
\* calling the EVM and without giving back the gas it bought, and Process
\* stops with that error and without a receipt for the transaction.
C4_ShortfallIsFatal ==
    ((Returned \/ pstate = "aborted") /\ IntrinsicShortfall) =>
        /\ result.err = ErrOutOfGas
        /\ ~result.failed
        /\ ~vmRet.called
        /\ balance = [pre.balance EXCEPT ![msg.from] = @ - Cost]
        /\ gp = pre.gp - msg.gas
        /\ nonce = pre.nonce
        /\ receipts = << >>
        /\ pstate = "aborted" => procErr = ErrOutOfGas

C4_Witness ==
    /\ pstate = "aborted"
    /\ IntrinsicShortfall
    /\ procErr = ErrOutOfGas

\* C5 (as claimed): when TransitionDb returns without error, gasUsed (net
\* of refunds) is at most the gas limit and at least the intrinsic gas.
C5_GasUsedAtLeastIntrinsic ==
    (Returned /\ result.err = NoErr) =>
        /\ result.usedGas <= msg.gas
        /\ result.usedGas >= MsgIntrinsicGas

\* C5 (amended): when TransitionDb returns without error, gasUsed (net of
\* refunds) is at most the gas limit, the gas used before the refund is at
\* least the intrinsic gas, and gasUsed is at least half of the gas used
\* before the refund (rounded up).
C5_GasUsedBounds ==
    (Returned /\ result.err = NoErr) =>
        /\ result.usedGas <= msg.gas
        /\ result.usedGas <= result.requiredGas
        /\ result.requiredGas >= MsgIntrinsicGas
        /\ 2 * result.usedGas >= result.requiredGas

C5_Witness ==
    /\ Returned
    /\ result.err = NoErr
    /\ result.usedGas < MsgIntrinsicGas
    /\ result.requiredGas > MsgIntrinsicGas

\* C6: the gas refundGas adds back to the remaining gas is
\* min(gasUsedBeforeRefund / 2, refund counter of the state).
C6_RefundCap ==
    (Returned /\ result.err = NoErr) =>
        /\ stGas - vmRet.gas = Min((initialGas - vmRet.gas) \div 2, refund)
        /\ 2 * (stGas - vmRet.gas) <= initialGas - vmRet.gas

C6_Witness ==
    /\ Returned
    /\ result.err = NoErr
    /\ refund > (initialGas - vmRet.gas) \div 2
    /\ stGas - vmRet.gas = (initialGas - vmRet.gas) \div 2
    /\ stGas > vmRet.gas

\* C7: when TransitionDb returns without error, gasUsed is the initial gas
\* minus the gas remaining after the refund, and the step that returns
\* credits the coinbase with gasUsed * gasPrice (on top of the sender's own
\* refund when the coinbase is the sender).
C7_GasUsedAndCoinbase ==
    [][(phase = "post" /\ phase' = "returned" /\ result'.err = NoErr) =>
          /\ result'.usedGas = initialGas' - stGas'
          /\ initialGas' = msg.gas
          /\ balance'[coinbase] =
                balance[coinbase] + result'.usedGas * msg.gasPrice
                + (IF coinbase = msg.from THEN stGas' * msg.gasPrice ELSE 0)
          /\ \A x \in Addr \ {coinbase, msg.from} : balance'[x] = balance[x]]_vars

C7_Witness ==
    /\ Returned
    /\ result.err = NoErr
    /\ coinbase = "m"
    /\ msg.gasPrice > 0
    /\ stGas > vmRet.gas
    /\ balance[coinbase] = result.usedGas * msg.gasPrice

(***************************************************************************)
(* Properties of the interpreter.                                          *)
(***************************************************************************)
TopF == frames[Len(frames)]
\* The innermost frame is about to execute the opcode at its pc.
Stepping == frames # << >> /\ TopF.status = "running" /\ ~abort
StepOp == GetOp(TopF.code, TopF.pc)
StepOperation == JumpTable(StepOp)
StepStackErr == validateStack(StepOperation, TopF.stack)
\* The opcode is valid and the stack validation passes.
StepValidated == StepOperation.valid /\ StepStackErr = NoErr
\* The opcode is flagged writes or is a CALL with a non-zero value operand.
StepWrites ==
    StepOperation.writes \/ (StepOp = CALL /\ Back(TopF.stack, 2) # 0)
\* The step made the innermost frame return err.
StepFailsWith(err) ==
    /\ Len(frames') = Len(frames)
    /\ frames'[Len(frames)].status = "returned"
    /\ frames'[Len(frames)].err = err
\* The step left the frame's gas, memory, stack and pc and the world state
\* as they were.
StepTouchedNothing ==
    /\ frames'[Len(frames)].gas = TopF.gas
    /\ frames'[Len(frames)].mem = TopF.mem
    /\ frames'[Len(frames)].stack = TopF.stack
    /\ frames'[Len(frames)].pc = TopF.pc
    /\ UNCHANGED <<balance, nonce, storage, refund, returnData>>

\* C8 (as claimed): in every step in read-only mode, under every rule set,
\* an operation flagged writes or a CALL with a non-zero value fails with
\* the write-protection error.
C8_StaticEveryRuleSet ==
    [][(Run_Step /\ Stepping /\ StepValidated /\ readOnly /\ StepWrites)
          => StepFailsWith(errWriteProtection)]_vars

\* C8 (amended): under Byzantium chain rules, every step in read-only mode
\* whose operation is flagged writes or is a CALL with a non-zero value
\* fails with the write-protection error; under earlier chain rules no step
\* fails with the write-protection error.
C8_StaticByzantium ==
    [][/\ (Run_Step /\ Stepping /\ StepValidated /\ readOnly /\ StepWrites
              /\ IsByzantium)
            => StepFailsWith(errWriteProtection)
       /\ (Run_Step /\ ~IsByzantium) => ~StepFailsWith(errWriteProtection)]_vars

C8_Witness ==
    /\ frames # << >>
    /\ IsByzantium
    /\ readOnly
    /\ TopF.status = "returned"
    /\ TopF.err = errWriteProtection
    /\ GetOp(TopF.code, TopF.pc) = CALL
    /\ Back(TopF.stack, 2) # 0

\* C9: the step that returns the write-protection error deducts no gas,
\* does not resize the memory, does not run the executor (stack and pc as
\* before) and does not change the world state.
C9_WriteProtectionPreCharge ==
    [][(Run_Step /\ Stepping /\ StepFailsWith(errWriteProtection))
          => StepTouchedNothing]_vars

C9_Witness ==
    /\ frames # << >>
    /\ TopF.status = "returned"
    /\ TopF.err = errWriteProtection
    /\ GetOp(TopF.code, TopF.pc) = SSTORE
    /\ ~cfg.DisableGasMetering
    /\ TopF.gas >= SstoreResetGas

\* C10: a step whose opcode needs more operands than the stack holds, or
\* whose pushes would exceed the stack limit, fails with the stack error
\* before the executor runs, before gas is deducted and before the memory
\* is resized.
C10_StackDiscipline ==
    [][(Run_Step /\ Stepping /\ StepOperation.valid
          /\ (Len(TopF.stack) < StepOperation.pop
              \/ Len(TopF.stack) - StepOperation.pop + StepOperation.push
                    > StackLimit))
          => /\ StepFailsWith(IF Len(TopF.stack) < StepOperation.pop
                              THEN ErrStackUnderflow ELSE ErrStackLimit)
             /\ StepTouchedNothing]_vars

C10_Witness ==
    /\ frames # << >>
    /\ TopF.status = "returned"
    /\ TopF.err = ErrStackLimit
    /\ Len(TopF.stack) = StackLimit
    /\ ~cfg.DisableGasMetering
    /\ TopF.gas >= GasFastestStep

(***************************************************************************)
(* Properties of the frames of a call chain.                               *)
(***************************************************************************)
\* The innermost Run has returned and its evm.Call is about to return.
Leaving == frames # << >> /\ TopF.status = "returned" /\ frames' # frames

\* The gas the call that is returning hands back: to the caller of the EVM
\* for the outermost frame, to the calling frame otherwise.
HandedBack ==
    IF Len(frames) = 1 THEN vmRet'.gas
    ELSE frames'[Len(frames) - 1].gas - frames[Len(frames) - 1].gas

AtLoopHead == frames # << >> /\ TopF.status = "running" /\ frames' # frames

\* The innermost frame of the current state, as the next state has it.
TopNext == frames'[Len(frames)]

\* C12: a frame that reads the abort flag set at the head of its loop ends
\* as an out-of-gas failure does: Run returns the out-of-gas error.
C12_AbortIsOutOfGas ==
    [][(AtLoopHead /\ abort) =>
          /\ TopNext.status = "returned"
          /\ TopNext.err = ErrOutOfGas]_vars

\* The frame that called the innermost one, now and in the next state.
Caller == frames[Len(frames) - 1]
CallerNext == frames'[Len(frames) - 1]

\* What is left to do once the abort flag is set: every frame of the chain
\* has to read the flag (or has returned already) and to return to its
\* caller.
AbortMeasure ==
    IF frames = << >> THEN 0
    ELSE 2 * Len(frames) - (IF TopF.status = "returned" THEN 1 ELSE 0)

\* C13: the abort flag is read once per step, at the head of the loop.  A
\* frame that reads it set executes no opcode (its stack, memory, gas and pc
\* and the state stay as they are) and returns; the CALL of an enclosing
\* frame that was in progress when the flag was set is completed, after
\* which that frame reads the flag in turn; the flag stays set, and once it
\* is set every step brings the chain closer to its end (AbortMeasure
\* decreases and the innermost frame can always take its step), so the
\* nested execution terminates.
C13_AbortCooperative ==
    /\ [][(AtLoopHead /\ abort) =>
             /\ Len(frames') = Len(frames)
             /\ TopNext = [TopF EXCEPT !.status = "returned"]
             /\ <<balance, nonce, storage, refund>>' = <<balance, nonce, storage, refund>>]_vars
    /\ [][(Leaving /\ abort /\ Len(frames) > 1) =>
             /\ Len(CallerNext.stack) = Len(Caller.stack) + 1
             /\ CallerNext.pc = Caller.pc + 1]_vars
    /\ [][abort => abort']_vars
    /\ [][(abort /\ frames # << >> /\ vars' # vars) =>
             /\ AbortMeasure' < AbortMeasure
             /\ frames' # << >> =>
                    frames'[Len(frames')].status \in {"running", "returned"}]_vars

C13_Witness ==
    /\ abort
    /\ Len(frames) = 1
    /\ TopF.status = "running"
    /\ TopF.stack = <<1>>
    /\ code["b"] = LoopProgram
    /\ cfg.DisableGasMetering

\* A step pushes a frame whose Run goes on to its loop (the Run of a
\* contract without code returns at once, taking its increment back).
FrameEntered ==
    /\ Len(frames') = Len(frames) + 1
    /\ frames'[Len(frames')].status = "running"

TxErrored == pstate = "run" /\ phase = "returned" /\ result.err # NoErr

\* C15: when applying a transaction returns an error, Process returns at
\* once with that error and with nil receipts and nil gas total; the
\* offending transaction and the later ones have no receipt, and after the
\* return nothing more happens: no later transaction is applied and
\* Finalize is not called.
C15_BlockAbort ==
    /\ [][TxErrored =>
             /\ pstate' = "aborted"
             /\ processRet' = [returned |-> TRUE, receipts |-> Nil, usedGas |-> 0,
                               nilGas |-> TRUE, err |-> result.err]
             /\ procErr' = result.err
             /\ receipts' = receipts
             /\ Len(receipts) = txIndex
             /\ txIndex' = txIndex
             /\ txIndex < Len(block)]_vars
    /\ [][pstate # "aborted"]_vars

C15_Witness ==
    /\ pstate = "aborted"
    /\ processRet.returned
    /\ processRet.err = ErrNonceTooLow
    /\ processRet.receipts = Nil
    /\ txIndex = 1
    /\ Len(block) = 3

\* The gas that is out of the pool: taken by buyGas and not given back by
\* refundGas.
Reserved == gasLimit - gp

\* C16: the pool starts at the gas limit of the block and is shared by its
\* transactions; it never goes negative, so the gas out of the pool never
\* exceeds the block's gas limit.  Between transactions the gas out of the
\* pool is the total gas used, while a transaction runs it is the total gas
\* used plus that transaction's gas limit.  A transaction whose gas limit
\* the pool cannot cover returns the gas-limit-reached error, which ends the
\* block.
C16_BlockGasBudget ==
    /\ gp >= 0
    /\ Reserved >= 0
    /\ Reserved <= gasLimit
    /\ totalUsedGas <= Reserved
    /\ (pstate # "aborted" /\ txIndex = 0 /\ phase = "idle") => gp = gasLimit
    /\ (pstate # "aborted" /\ phase = "idle") => Reserved = totalUsedGas
    /\ phase \in {"bought", "vm", "post"} => Reserved = totalUsedGas + msg.gas
    /\ (phase # "idle" /\ pstate = "run") => pre.gp = gasLimit - totalUsedGas
    /\ (Returned /\ NonceOK /\ GasFits /\ HasFunds /\ ~PoolHas) =>
           /\ result.err = ErrGasLimitReached
           /\ gp = pre.gp
    /\ (pstate = "aborted" /\ NonceOK /\ GasFits /\ HasFunds /\ ~PoolHas) =>
           procErr = ErrGasLimitReached

C16_Witness ==
    /\ pstate = "aborted"
    /\ procErr = ErrGasLimitReached
    /\ txIndex = 2
    /\ msg.gas > gp
    /\ msg.gas + totalUsedGas > gasLimit

\* The sum of gasUsed of the first n receipts of rs.
RECURSIVE SumGasUsed(_, _)
SumGasUsed(rs, n) == IF n = 0 THEN 0 ELSE SumGasUsed(rs, n - 1) + rs[n].gasUsed

\* The receipts are well formed: one per applied transaction, each with the
\* sum of the gas used up to and including its transaction.
ReceiptsInOrder ==
    /\ Len(receipts) = txIndex
    /\ \A i \in 1 .. Len(receipts) :
           receipts[i].cumulativeGasUsed = SumGasUsed(receipts, i)
    /\ \A i \in 2 .. Len(receipts) :
           receipts[i].cumulativeGasUsed >= receipts[i - 1].cumulativeGasUsed
    /\ totalUsedGas = SumGasUsed(receipts, Len(receipts))

\* C17: a Process that succeeds returns one receipt per transaction, in
\* block order; the receipt of transaction i carries its failure flag and
\* its gasUsed, and as cumulative gas the sum of gasUsed of transactions
\* 0..i; the total gas used that is returned is the cumulative gas of the
\* last receipt.
C17_Receipts ==
    [][/\ ReceiptsInOrder'
       /\ (pstate = "run" /\ Returned /\ result.err = NoErr) =>
              /\ Len(receipts') = Len(receipts) + 1
              /\ SubSeq(receipts', 1, Len(receipts)) = receipts
              /\ msg = block[Len(receipts')]
              /\ receipts'[Len(receipts')].failed = result.failed
              /\ receipts'[Len(receipts')].gasUsed = result.usedGas
       /\ (processRet'.returned /\ processRet'.err = NoErr) =>
              /\ processRet'.receipts = receipts'
              /\ Len(receipts') = Len(block)
              /\ ~processRet'.nilGas
              /\ processRet'.usedGas = SumGasUsed(receipts', Len(receipts'))
              /\ receipts' # << >> =>
                    processRet'.usedGas
                        = receipts'[Len(receipts')].cumulativeGasUsed]_vars

C17_Witness ==
    /\ processRet.returned
    /\ processRet.err = NoErr
    /\ Len(processRet.receipts) = 3
    /\ processRet.receipts[1].failed
    /\ ~processRet.receipts[2].failed
    /\ processRet.receipts[2].gasUsed # processRet.receipts[1].gasUsed
    /\ processRet.receipts[3].cumulativeGasUsed = processRet.usedGas

(***************************************************************************)
(* Scenarios of the state transition.                                      *)
(***************************************************************************)
\* The fee of the transaction that returned.
Fee == result.usedGas * msg.gasPrice

\* C18: for a message with a recipient the nonce of the sender is
\* incremented by one before the call path is entered, and when the call
\* fails with a transaction-local error (failed, no error) the increment
\* and the payment stay: the nonce is the old one plus one, the sender has
\* paid gasUsed * gasPrice, the coinbase has received it, and no other
\* balance has changed.
C18_FailedCallIsBilled ==
    /\ (phase \in {"vm", "post"} /\ msg.to # NoAddr) =>
           nonce = [pre.nonce EXCEPT ![msg.from] = @ + 1]
    /\ (Returned /\ msg.to # NoAddr /\ result.err = NoErr /\ result.failed) =>
           /\ nonce = [pre.nonce EXCEPT ![msg.from] = @ + 1]
           /\ balance = [pre.balance EXCEPT ![msg.from] = @ - Fee,
                                            ![coinbase] = @ + Fee]

C18_Witness ==
    /\ Returned
    /\ msg.to = "k"
    /\ result.err = NoErr
    /\ result.failed
    /\ msg.gasPrice = 2
    /\ msg.value = 5
    /\ coinbase = "m"
    /\ balance["m"] = Fee
    /\ Fee > 0
    /\ nonce["a"] = 2

\* The plain transfer has returned: empty call data, from "a" (nonce 0, a
\* balance that covers gas and value) to the plain account "b", gas limit
\* 21000 and gas price 1.
PlainTransferDone ==
    /\ Returned
    /\ msg.to = "b"
    /\ msg.data = << >>
    /\ msg.gas = TxGas
    /\ msg.gasPrice = 1
    /\ pre.nonce[msg.from] = 0
    /\ pre.balance[msg.from] >= TxGas + msg.value

\* C19: the plain transfer returns failed = false and no error with
\* gasUsed = 21000 and leaves the nonce of "a" at 1; "a" has paid 21000 +
\* value, "b" has received value and the coinbase has received the fee of
\* 21000: with a coinbase that is neither of them, the balance of "a" is
\* reduced by 21000 + value and the balance of "b" is increased by value.
C19_PlainTransfer ==
    PlainTransferDone
    => /\ result.err = NoErr
       /\ ~result.failed
       /\ result.usedGas = TxGas
       /\ nonce[msg.from] = 1
       /\ balance = [[[pre.balance EXCEPT ![msg.from] = @ - (TxGas + msg.value)]
                                    EXCEPT ![msg.to] = @ + msg.value]
                                    EXCEPT ![coinbase] = @ + TxGas]
       /\ coinbase \notin {msg.from, msg.to} =>
              /\ balance[msg.from] = pre.balance[msg.from] - (TxGas + msg.value)
              /\ balance[msg.to] = pre.balance[msg.to] + msg.value

C19_Witness ==
    /\ Returned
    /\ msg.to = "b"
    /\ msg.data = << >>
    /\ msg.gas = TxGas
    /\ msg.gasPrice = 1
    /\ msg.value = 5
    /\ msg.checkNonce
    /\ pre.nonce["a"] = 0
    /\ pre.balance["a"] = 1000000
    /\ pre.balance["b"] = 7
    /\ coinbase = "m"
    /\ balance["a"] = 1000000 - 21005
    /\ balance["b"] = 12
    /\ result.usedGas = 21000

\* A call of the contract "k", whose code is the single invalid opcode, has
\* returned; the message passed the pre-checks and its gas limit covers the
\* intrinsic gas and its balance the value.
InvalidOpcodeCallDone ==
    /\ Returned
    /\ msg.to = "k"
    /\ code["k"] = <<INVALID>>
    /\ NonceOK /\ GasFits /\ HasFunds /\ PoolHas
    /\ ~IntrinsicShortfall
    /\ pre.balance[msg.from] - Cost >= msg.value

\* C20: a call into code that is a single invalid opcode returns
\* failed = true and no error, with gasUsed equal to the gas limit of the
\* message: the sender gets nothing back (it has paid gas limit * gas
\* price, which the coinbase has received), nothing goes back to the pool
\* and the value is not transferred.
C20_InvalidOpcodeCall ==
    InvalidOpcodeCallDone
    => /\ result.err = NoErr
       /\ result.failed
       /\ result.usedGas = msg.gas
       /\ gp = pre.gp - msg.gas
       /\ balance = [[pre.balance EXCEPT ![msg.from] = @ - Cost]
                                   EXCEPT ![coinbase] = @ + Cost]

C20_Witness ==
    /\ InvalidOpcodeCallDone
    /\ msg.gas = 60000
    /\ msg.gasPrice = 2
    /\ msg.value = 0
    /\ coinbase = "m"
    /\ result.failed
    /\ result.usedGas = 60000
    /\ balance["a"] = pre.balance["a"] - 120000

PoolAmounts == GasLimits \cup {0, gp, gp + 1}

\* C22: whatever value the pool has reached, SubGas(n) fails with the
\* gas-limit-reached error and leaves the pool as it is when n exceeds the
\* pool, and takes exactly n otherwise; AddGas(n) adds exactly n and cannot
\* fail; a SubGas(n) that succeeded followed by AddGas(n) gives the pool
\* its prior value.  In the transition: buyGas on a pool that cannot cover
\* the gas limit returns the error and the pool is as before.
C22_PoolAccounting ==
    /\ \A n \in PoolAmounts :
           LET r == SubGas(gp, n)
           IN  /\ n > gp => (r.err = ErrGasLimitReached /\ r.gp = gp)
               /\ n <= gp => (r.err = NoErr /\ r.gp = gp - n
                                /\ AddGas(r.gp, n) = gp)
               /\ AddGas(gp, n) = gp + n
    /\ (Returned /\ NonceOK /\ GasFits /\ HasFunds /\ ~PoolHas) =>
           (result.err = ErrGasLimitReached /\ gp = pre.gp /\ stGas = 0)

C22_Witness ==
    /\ Returned
    /\ msg.gas = 120000
    /\ pre.gp = 100000
    /\ result.err = ErrGasLimitReached
    /\ gp = 100000
    /\ SubGas(gp, 60000).gp = 40000

(***************************************************************************)
(* Properties of the tracer.                                               *)
(***************************************************************************)
\* The frames without what is kept for the tracer.
Untraced(fs) ==
    [i \in 1 .. Len(fs) |->
        [fs[i] EXCEPT !.logged = FALSE, !.pcCopy = 0, !.gasCopy = 0,
                      !.stackCopy = << >>]]

\* What the step would do with the tracer disabled.
StepUntraced == RunStep([Machine EXCEPT !.debug = FALSE], abort)

\* C23: every step of the interpreter does to the frames (output, error,
\* gas, pc, stack, memory of each), to the depth, the read-only flag, the
\* return data and the world state exactly what it does with the tracer
\* disabled, so two runs of the same call that differ in Debug only stay
\* equal up to and including what Run returns; with the tracer disabled
\* nothing is captured and no copy of the stack is made, with the tracer
\* enabled the copy is the stack as it was before the step.
C23_TracerTransparent ==
    /\ [][Run_Step =>
             /\ Untraced(frames') = Untraced(StepUntraced.frames)
             /\ depth' = StepUntraced.depth
             /\ readOnly' = StepUntraced.readOnly
             /\ returnData' = StepUntraced.returnData
             /\ balance' = StepUntraced.balance
             /\ nonce' = StepUntraced.nonce
             /\ storage' = StepUntraced.storage
             /\ refund' = StepUntraced.refund
             /\ StepUntraced.tracer = tracer
             /\ (cfg.Debug /\ ~abort) => TopNext.stackCopy = TopF.stack]_vars
    /\ [][~cfg.Debug =>
             /\ tracer' = NoCapture
             /\ \A i \in 1 .. Len(frames') :
                    frames'[i].stackCopy = << >> /\ ~frames'[i].logged]_vars

C23_Witness ==
    /\ cfg.Debug
    /\ phase = "vmdone"
    /\ code["k"] = ReturnProgram
    /\ vmRet.err = NoErr
    /\ Len(vmRet.ret) = 32
    /\ tracer.captured
    /\ tracer.op = RETURN
    /\ tracer.stack = <<32, 0>>
    /\ tracer.pc = 9
    /\ tracer.gas = stGas - 4 * GasFastestStep - (GasFastestStep + MemoryGas)

(***************************************************************************)
(* Properties of the outcome of a step.                                    *)
(***************************************************************************)
\* The memory the step asks for, in bytes and rounded up to words.
StepMemSize == IF StepOperation.mem THEN memorySize(StepOp, TopF.stack) ELSE 0
StepMemSz == toWordSize(StepMemSize) * 32

\* The step passes the validations and the gas metering: its executor runs.
StepExecutes ==
    /\ Stepping
    /\ StepValidated
    /\ enforceRestrictions(IsByzantium, readOnly, StepOp, StepOperation,
                           TopF.stack) = NoErr
    /\ StepMemSize < WordLimit
    /\ StepMemSz < WordLimit
    /\ \/ cfg.DisableGasMetering
       \/ TopF.gas >= gasCost(StepOp, storage, TopF, StepMemSz).cost

\* The executor of the step returns an error: a JUMP to a position that is
\* not a jump destination.
StepExecutorFails ==
    StepOp = JUMP /\ ~validJumpdest(TopF.code, Back(TopF.stack, 0))

\* The bytes the executor of the step returns: the memory slice of RETURN
\* and REVERT, nothing for the other opcodes.
StepOutput ==
    IF StepOp \in {RETURN, REVERT}
    THEN MemGet(TopNext.mem, Back(TopF.stack, 0), Back(TopF.stack, 1))
    ELSE Nil

\* The step made the innermost frame return (ret, err).
StepReturns(ret, err) == StepFailsWith(err) /\ TopNext.ret = ret

\* C24: after the executor of a step returned, an executor error ends the
\* frame with that error and no output, whatever the flags of the
\* operation; otherwise an operation flagged reverts ends the frame with
\* the revert error and the output of the executor; otherwise an operation
\* flagged halts ends the frame without error and with the output;
\* otherwise the frame goes on, with the pc one past where the executor left
\* it (PUSH1 moves it over its operand) unless the operation is flagged
\* jumps, in which case the pc is the one the executor set; a frame whose
\* CALL or STATICCALL returned goes on one past that opcode.
C24_OutcomeDispatch ==
    /\ [][(Run_Step /\ StepExecutes /\ StepOp \notin {CALL, STATICCALL}) =>
             IF StepExecutorFails THEN StepReturns(Nil, ErrInvalidJump)
             ELSE IF StepOperation.reverts
             THEN StepReturns(StepOutput, errExecutionReverted)
             ELSE IF StepOperation.halts THEN StepReturns(StepOutput, NoErr)
             ELSE /\ Len(frames') = Len(frames)
                  /\ TopNext.status = "running"
                  /\ TopNext.pc = IF StepOperation.jumps THEN Back(TopF.stack, 0)
                                  ELSE IF StepOp = PUSH1 THEN TopF.pc + 2
                                  ELSE TopF.pc + 1]_vars
    /\ [][(Run_Step /\ StepExecutes /\ StepOp \in {CALL, STATICCALL}
              /\ Len(frames') = Len(frames)) =>
             (TopNext.status = "running" /\ TopNext.pc = TopF.pc + 1)]_vars
    /\ [][(Leaving /\ Len(frames) > 1) =>
             (CallerNext.status = "running" /\ CallerNext.pc = Caller.pc + 1)]_vars

C24_Witness ==
    /\ cfg.JumpTable = "jumpReverts"
    /\ code["k"] = BadJumpProgram
    /\ Len(frames) = 1
    /\ TopF.status = "returned"
    /\ TopF.err = ErrInvalidJump
    /\ TopF.ret = Nil
    /\ JumpTable(JUMP).reverts
    /\ JumpTable(JUMP).halts
    /\ TopF.pc = 4

(***************************************************************************)
(* Properties of the memory of a frame.                                    *)
(***************************************************************************)
\* The gas cost of the step.
StepCost == gasCost(StepOp, storage, TopF, StepMemSz).cost

\* The fee of growing the memory of the innermost frame to what the step
\* asks for.
StepExpansionFee == MemFee(StepMemSz \div 32) - MemFee(Len(TopF.mem) \div 32)

\* C25: with gas metering enabled, a step that grows the memory of its
\* frame has passed the metering: the frame had at least the cost of the
\* step, the cost includes the fee of the expansion, and the cost was
\* deducted; the memory then has the size the step asked for, rounded up to
\* words.  A step that fails with out of gas leaves the memory as it was.
\* The memory of every frame is a whole number of 32-byte words, and no
\* step makes the memory of a frame shorter.
C25_MemoryChargedBeforeGrowth ==
    /\ [][(Run_Step /\ Stepping /\ ~cfg.DisableGasMetering
              /\ Len(TopNext.mem) > Len(TopF.mem)) =>
             /\ StepExecutes
             /\ Len(TopNext.mem) = StepMemSz
             /\ StepExpansionFee > 0
             /\ StepCost >= StepExpansionFee
             /\ TopF.gas >= StepCost
             /\ TopNext.gas = TopF.gas - StepCost]_vars
    /\ [][(Run_Step /\ Stepping /\ StepFailsWith(ErrOutOfGas)) =>
             TopNext.mem = TopF.mem]_vars
    /\ [][\A i \in 1 .. Len(frames') :
             /\ Len(frames'[i].mem) % 32 = 0
             /\ i <= Len(frames) => Len(frames'[i].mem) >= Len(frames[i].mem)]_vars

C25_Witness ==
    /\ ~cfg.DisableGasMetering
    /\ Len(frames) = 2
    /\ TopF.status = "returned"
    /\ TopF.err = ErrOutOfGas
    /\ StepOp = MSTORE
    /\ TopF.mem = << >>
    /\ TopF.gas >= GasFastestStep
    /\ TopF.gas < GasFastestStep + MemoryGas

(***************************************************************************)
(* Properties of the end of the code.                                      *)
(***************************************************************************)
\* The code holds no JUMP, CALL or STATICCALL byte.
StraightLine(c) == \A i \in 1 .. Len(c) : c[i] \notin {JUMP, CALL, STATICCALL}

\* A step pushes a frame.
FramePushed == Len(frames') = Len(frames) + 1

\* C26: a step whose pc is at or beyond the end of the code fetches STOP
\* and ends the frame without error, with no output and with its gas as it
\* was.  The Run of a contract without code returns at once: its frame has
\* returned when it is pushed, with no output, no error, no step taken and
\* all the gas it was given, which its call hands back.  A frame whose code
\* holds no jump and no call has taken at most Len(code) + 1 steps, and
\* while it runs its pc is at least the number of steps it has taken.
C26_ImplicitStop ==
    /\ [][(Run_Step /\ Stepping /\ TopF.pc >= Len(TopF.code)) =>
             /\ StepOp = STOP
             /\ StepReturns(Nil, NoErr)
             /\ TopNext.gas = TopF.gas]_vars
    /\ [][(FramePushed /\ frames'[Len(frames')].code = << >>) =>
             /\ frames'[Len(frames')].status = "returned"
             /\ frames'[Len(frames')].ret = Nil
             /\ frames'[Len(frames')].err = NoErr
             /\ frames'[Len(frames')].steps = 0
             /\ frames # << >> => frames'[Len(frames')].gas = Back(TopF.stack, 0)]_vars
    /\ [][(Leaving /\ TopF.code = << >>) =>
             (TopF.err = NoErr /\ TopF.ret = Nil /\ HandedBack = TopF.gas)]_vars
    /\ [][\A i \in 1 .. Len(frames') :
             StraightLine(frames'[i].code) =>
                /\ frames'[i].steps <= Len(frames'[i].code) + 1
                /\ frames'[i].status = "running" =>
                       frames'[i].steps <= frames'[i].pc]_vars

C26_Witness ==
    /\ Len(frames) = 1
    /\ TopF.code = <<JUMPDEST>>
    /\ TopF.status = "returned"
    /\ TopF.err = NoErr
    /\ TopF.ret = Nil
    /\ TopF.pc = 1
    /\ TopF.steps = 2
    /\ ~abort

(***************************************************************************)
(* Properties of what a transition gives back and pays.                    *)
(***************************************************************************)
\* The refund that was granted: the refund counter of the state, at most
\* half of the gas used before the refund.
CappedRefund == Min((msg.gas - vmRet.gas) \div 2, refund)

\* C27: when a transition has returned without error the pool is what it
\* was when the transition was entered minus the gasUsed that was returned,
\* gasUsed being the gas limit minus the final remaining gas (what the EVM
\* left plus the capped refund).  The pool changes twice per transaction
\* and not otherwise: buyGas takes the gas limit, and refundGas gives the
\* final remaining gas back, once; the next transaction finds the pool so.
C27_PoolRelease ==
    /\ [][(Returned' /\ result'.err = NoErr) =>
             /\ stGas' = vmRet'.gas + CappedRefund'
             /\ result'.usedGas = msg'.gas - stGas'
             /\ gp' = pre'.gp - result'.usedGas]_vars
    /\ [][gp' # gp =>
             \/ (phase = "idle" /\ phase' = "bought" /\ gp' = gp - msg'.gas)
             \/ (phase = "post" /\ Returned' /\ result'.err = NoErr
                    /\ gp' = gp + stGas')]_vars
    /\ [][(phase = "post" /\ result'.err = NoErr) =>
             gp' = gp + vmRet.gas + CappedRefund]_vars
    /\ [][(phase = "idle" /\ phase' # "idle" /\ txIndex > 0) =>
             pre'.gp = gasLimit - receipts[txIndex].cumulativeGasUsed]_vars

C27_Witness ==
    /\ Returned
    /\ txIndex = 1
    /\ result.err = NoErr
    /\ msg.gas = 60000
    /\ block[1].gas = 60000
    /\ gasLimit = 100000
    /\ pre.gp > 60000
    /\ CappedRefund > 0
    /\ gp = pre.gp - result.usedGas
    /\ result.usedGas < result.requiredGas

(***************************************************************************)
(* Properties of the order of a block run.                                 *)
(***************************************************************************)
\* The block is the block of the DAO hard fork and the fork is supported.
AtForkBlock == daoFork.support /\ daoFork.block # NoBlock /\ daoFork.block = number

\* The calls Process has made after the patch of the hard fork, if any.
TxCalls == IF AtForkBlock THEN Tail(calls) ELSE calls

\* The number of calls of the consensus engine's Finalize.
Finalized == Cardinality({i \in 1 .. Len(calls) : calls[i].op = "Finalize"})

\* C28: once Process has begun, the hard fork patch was applied exactly
\* when the block number equals the fork block and the fork is supported,
\* and then as the first call, before any transaction, with its effect on
\* the state; after it the calls are, for the transactions 0, 1, ... in
\* block order, the preparation of the state for the transaction followed
\* by its application, one transaction being applied only after the one
\* before it has returned without error; Finalize is called at most once,
\* as the last call, after every transaction of the block was applied
\* without error, and never after a transaction returned an error.
C28_BlockOrder ==
    /\ pstate = "new" => (calls = << >> /\ phase = "idle" /\ txIndex = 0)
    /\ pstate # "new" =>
           /\ AtForkBlock <=>
                  \E i \in 1 .. Len(calls) : calls[i].op = "ApplyDAOHardFork"
           /\ AtForkBlock => calls[1].op = "ApplyDAOHardFork"
           /\ (AtForkBlock /\ Len(calls) = 1) =>
                  /\ balance[DAODrainAccount] = 0
                  /\ balance[DAORefundContract] = 3
           /\ \A i \in 1 .. Len(TxCalls) :
                  TxCalls[i].op # "ApplyDAOHardFork"
           /\ \A j \in 0 .. Len(block) - 1 :
                  (2 * j + 2 <= Len(TxCalls)) =>
                     /\ TxCalls[2 * j + 1] = [op |-> "Prepare", index |-> j]
                     /\ TxCalls[2 * j + 2] = [op |-> "ApplyTransaction", index |-> j]
           /\ Len(TxCalls) = 2 * (txIndex + (IF phase = "idle" /\ pstate # "aborted"
                                             THEN 0 ELSE 1))
                             + Finalized
           /\ Len(receipts) = txIndex
    /\ Finalized <= 1
    /\ Finalized = 1 <=> pstate = "finalized"
    /\ pstate = "finalized" =>
           /\ calls[Len(calls)] = [op |-> "Finalize", index |-> Len(block)]
           /\ Len(receipts) = Len(block)
           /\ procErr = NoErr
    /\ pstate = "aborted" => (procErr # NoErr /\ Finalized = 0)

C28_Witness ==
    /\ pstate = "finalized"
    /\ AtForkBlock
    /\ Len(block) = 2
    /\ Len(calls) = 6
    /\ calls[1].op = "ApplyDAOHardFork"
    /\ calls[4] = [op |-> "Prepare", index |-> 1]
    /\ calls[6].op = "Finalize"
    /\ balance["n"] = 3

(***************************************************************************)
(* Properties of the depth counter.                                        *)
(***************************************************************************)
\* The invocations of Run that have not returned.
ActiveRuns == {i \in 1 .. Len(frames) : frames[i].status # "returned"}

\* Run is called on a contract without code: it returns at once.
EmptyRun ==
    /\ Len(frames') = Len(frames) + 1
    /\ frames'[Len(frames')].status = "returned"

\* The innermost Run returns from its loop.
RunExits ==
    /\ frames # << >>
    /\ frames[Len(frames)].status = "running"
    /\ Len(frames') = Len(frames)
    /\ frames'[Len(frames)].status = "returned"

\* C30: the depth counter is the number of invocations of Run that have
\* not returned, and only the innermost invocation can have returned; Run
\* increments the counter and clears the stashed return data on entry; on
\* every exit (a contract without code, an error of validation, of gas or
\* of the executor, a revert, a halt, an abort) the counter is back at its
\* value before the call, and handing the result to the caller leaves it
\* alone.
C30_DepthBalance ==
    /\ [][/\ depth' = Cardinality(ActiveRuns')
          /\ \A i \in 1 .. Len(frames') - 1 : i \in ActiveRuns']_vars
    /\ [][(Len(frames') = Len(frames) + 1) =>
             /\ depth = Len(frames)
             /\ returnData' = Nil
             /\ frames'[Len(frames')].code # << >> =>
                    (depth' = depth + 1 /\ frames'[Len(frames')].status = "running")
             /\ frames'[Len(frames')].code = << >> => EmptyRun]_vars
    /\ [][EmptyRun =>
             /\ depth' = depth
             /\ frames'[Len(frames')].ret = Nil
             /\ frames'[Len(frames')].err = NoErr]_vars
    /\ [][RunExits => (depth = Len(frames) /\ depth' = depth - 1)]_vars
    /\ [][(Len(frames') < Len(frames)) =>
             (Len(frames') = Len(frames) - 1 /\ depth' = depth
                /\ depth' = Len(frames'))]_vars

C30_Witness ==
    /\ Len(frames) = 2
    /\ frames[1].status = "calling"
    /\ frames[2].status = "returned"
    /\ frames[2].err = ErrOutOfGas
    /\ depth = 1

(***************************************************************************)
(* Properties of the payment for gas.                                      *)
(***************************************************************************)
RECURSIVE TotalOver(_, _)
TotalOver(S, bal) ==
    IF S = {} THEN 0
    ELSE LET x == CHOOSE y \in S : TRUE
         IN  bal[x] + TotalOver(S \ {x}, bal)

\* The sum of the balances of all accounts.
Total(bal) == TotalOver(DOMAIN bal, bal)

\* C29: buying gas debits the sender msg.gas * gasPrice; when the
\* transition returns without error the sender is credited the remaining
\* gas and the capped refund at the gas price, the beneficiary is credited
\* usedGas * gasPrice, and the two amounts are equal: what the sender paid
\* less what it got back is what the beneficiary received, whether or not
\* the two are the same account.  No other step of the transition changes
\* the sum of the balances, so after a return without error the sum is what
\* it was before the transition.
C29_GasConservation ==
    /\ [][(phase = "idle" /\ phase' = "bought") =>
             balance' = [balance EXCEPT
                           ![msg'.from] = @ - msg'.gas * msg'.gasPrice]]_vars
    /\ [][(phase = "post" /\ result'.err = NoErr) =>
             LET back == (vmRet.gas + CappedRefund) * msg.gasPrice
                 fee == result'.usedGas * msg.gasPrice
             IN  /\ result'.usedGas = msg.gas - vmRet.gas - CappedRefund
                 /\ msg.gas * msg.gasPrice - back = fee
                 /\ \A x \in Addr :
                       balance'[x] = balance[x]
                                       + (IF x = msg.from THEN back ELSE 0)
                                       + (IF x = coinbase THEN fee ELSE 0)]_vars
    /\ [][(phase \notin {"idle", "post"}) =>
             Total(balance') = Total(balance)]_vars
    /\ [][(Returned' /\ result'.err = NoErr) =>
             Total(balance') = Total(pre'.balance)]_vars

C29_Witness ==
    /\ Returned
    /\ result.err = NoErr
    /\ coinbase = msg.from
    /\ CappedRefund > 0
    /\ vmRet.gas > 0
    /\ msg.gasPrice = 2
    /\ result.usedGas > 0
    /\ balance[msg.from] = pre.balance[msg.from] - msg.value

(***************************************************************************)
(* Goroutines calling cachedTypeInfo.  The pc of a goroutine names the     *)
(* statement it executes next; its stack holds one frame [key, i] for      *)
(* every active cachedTypeInfo1, i counting the components looked up.      *)
(***************************************************************************)
\* (mutant) structFields looks its field types up with cachedTypeInfo,
\* which takes the lock.
NestedLookup_Locking == "RLock"

\* structFields looks its field types up with cachedTypeInfo1.
NestedLookup == "cachedTypeInfo1"

TopFrame(gr) == gr.stack[Len(gr.stack)]

\* cachedTypeInfo1 returns (p, err): to the statement after the lookup of
\* the calling generation, which fails with the error, or to cachedTypeInfo.
ReturnFrom1(gr, p, err) ==
    LET n == Len(gr.stack) - 1
        rest == SubSeq(gr.stack, 1, n)
    IN  IF n = 0
        THEN [gr EXCEPT !.stack = rest, !.pc = "Unlock", !.ret = p, !.err = err]
        ELSE IF err
        THEN [gr EXCEPT !.stack = rest, !.pc = "delete"]
        ELSE [gr EXCEPT !.stack = [rest EXCEPT ![n].i = @ + 1],
                        !.pc = "genTypeInfo"]

\* A goroutine calls cachedTypeInfo(key, tags).
Rlp_Call(g) ==
    /\ gos[g].pc = "idle"
    /\ gos[g].calls < MaxCalls
    /\ \E k \in TypeKeys :
          gos' = [gos EXCEPT ![g] = [@ EXCEPT !.pc = "RLock", !.key = k,
                                              !.info = 0, !.ret = 0, !.err = FALSE]]
    /\ UNCHANGED <<typeCache, typeCacheMutex, infos, generated, received>>

\* typeCacheMutex.RLock(): blocks while a writer holds or awaits the lock.
Rlp_RLock(g) ==
    /\ gos[g].pc = "RLock"
    /\ typeCacheMutex.writer = NoGoroutine
    /\ typeCacheMutex.pending = NoGoroutine
    /\ typeCacheMutex' = [typeCacheMutex EXCEPT !.readers = @ \cup {g}]
    /\ gos' = [gos EXCEPT ![g].pc = "read"]
    /\ UNCHANGED <<typeCache, infos, generated, received>>

\* info := typeCache[typekey{typ, tags}]
Rlp_Read(g) ==
    /\ gos[g].pc = "read"
    /\ gos' = [gos EXCEPT ![g] = [@ EXCEPT !.info = typeCache[gos[g].key],
                                           !.pc = "RUnlock"]]
    /\ UNCHANGED <<typeCache, typeCacheMutex, infos, generated, received>>

\* typeCacheMutex.RUnlock(), and the return of the entry that was found.
Rlp_RUnlock(g) ==
    /\ gos[g].pc = "RUnlock"
    /\ typeCacheMutex' = [typeCacheMutex EXCEPT !.readers = @ \ {g}]
    /\ IF gos[g].info # 0
       THEN /\ gos' = [gos EXCEPT ![g] = [@ EXCEPT !.pc = "idle", !.ret = gos[g].info,
                                                   !.calls = @ + 1]]
            /\ received' = [received EXCEPT ![gos[g].key] = @ \cup {gos[g].info}]
       ELSE /\ gos' = [gos EXCEPT ![g].pc = "Lock"]
            /\ UNCHANGED received
    /\ UNCHANGED <<typeCache, infos, generated>>

\* typeCacheMutex.Lock(), first half: the writer excludes other writers
\* and announces itself, which blocks new readers.
Rlp_Lock(g) ==
    /\ gos[g].pc = "Lock"
    /\ typeCacheMutex.writer = NoGoroutine
    /\ typeCacheMutex.pending = NoGoroutine
    /\ typeCacheMutex' = [typeCacheMutex EXCEPT !.pending = g]
    /\ gos' = [gos EXCEPT ![g].pc = "LockWait"]
    /\ UNCHANGED <<typeCache, infos, generated, received>>

\* typeCacheMutex.Lock(), second half: the writer has waited for the
\* readers to leave; cachedTypeInfo1 is called.
Rlp_LockAcquired(g) ==
    /\ gos[g].pc = "LockWait"
    /\ typeCacheMutex.readers = {}
    /\ typeCacheMutex' = [typeCacheMutex EXCEPT !.writer = g, !.pending = NoGoroutine]
    /\ gos' = [gos EXCEPT ![g] = [@ EXCEPT !.pc = "cachedTypeInfo1",
                                           !.stack = <<[key |-> gos[g].key, i |-> 0]>>]]
    /\ UNCHANGED <<typeCache, infos, generated, received>>

\* cachedTypeInfo1: info := typeCache[key]; an entry that is there is
\* returned.
Rlp_Lookup1(g) ==
    /\ gos[g].pc = "cachedTypeInfo1"
    /\ LET k == TopFrame(gos[g]).key
       IN  gos' = [gos EXCEPT ![g] =
                      IF typeCache[k] # 0 THEN ReturnFrom1(@, typeCache[k], FALSE)
                      ELSE [@ EXCEPT !.pc = "put"]]
    /\ UNCHANGED <<typeCache, typeCacheMutex, infos, generated, received>>

\* typeCache[key] = new(typeinfo)
Rlp_PutDummy(g) ==
    /\ gos[g].pc = "put"
    /\ infos' = Append(infos, "empty")
    /\ typeCache' = [typeCache EXCEPT ![TopFrame(gos[g]).key] = Len(infos) + 1]
    /\ gos' = [gos EXCEPT ![g].pc = "genTypeInfo"]
    /\ UNCHANGED <<typeCacheMutex, generated, received>>

\* genTypeInfo: the next component of the type is looked up; after the
\* last one the generation succeeds unless the type is not supported.
Rlp_Gen(g) ==
    /\ gos[g].pc = "genTypeInfo"
    /\ LET f == TopFrame(gos[g])
       IN  gos' = [gos EXCEPT ![g] =
                      IF f.i < Len(Components(f.key))
                      THEN [@ EXCEPT !.stack = Append(@, [key |-> Components(f.key)[f.i + 1],
                                                          i |-> 0]),
                                     !.pc = NestedLookup]
                      ELSE IF f.key \in Unsupported THEN [@ EXCEPT !.pc = "delete"]
                      ELSE [@ EXCEPT !.pc = "fill"]]
    /\ UNCHANGED <<typeCache, typeCacheMutex, infos, generated, received>>

\* *typeCache[key] = *info; return typeCache[key], err
Rlp_Fill(g) ==
    /\ gos[g].pc = "fill"
    /\ LET k == TopFrame(gos[g]).key
       IN  /\ infos' = [infos EXCEPT ![typeCache[k]] = "filled"]
           /\ generated' = [generated EXCEPT ![k] = @ + 1]
           /\ gos' = [gos EXCEPT ![g] = ReturnFrom1(@, typeCache[k], FALSE)]
    /\ UNCHANGED <<typeCache, typeCacheMutex, received>>

\* delete(typeCache, key); return nil, err
Rlp_Delete(g) ==
    /\ gos[g].pc = "delete"
    /\ typeCache' = [typeCache EXCEPT ![TopFrame(gos[g]).key] = 0]
    /\ gos' = [gos EXCEPT ![g] = ReturnFrom1(@, 0, TRUE)]
    /\ UNCHANGED <<typeCacheMutex, infos, generated, received>>

\* The deferred typeCacheMutex.Unlock(), and the return of cachedTypeInfo.
Rlp_Unlock(g) ==
    /\ gos[g].pc = "Unlock"
    /\ typeCacheMutex' = [typeCacheMutex EXCEPT !.writer = NoGoroutine]
    /\ gos' = [gos EXCEPT ![g] = [@ EXCEPT !.pc = "idle", !.calls = @ + 1]]
    /\ received' = IF gos[g].err THEN received
                   ELSE [received EXCEPT ![gos[g].key] = @ \cup {gos[g].ret}]
    /\ UNCHANGED <<typeCache, infos, generated>>

InitRlp ==
    /\ EvmCommon
    /\ rules = "byzantium"
    /\ balance = [x \in Addr |-> 0]
    /\ code = [x \in Addr |-> Nil]
    /\ coinbase = "m"
    /\ cfg = [Debug |-> FALSE, DisableGasMetering |-> FALSE, JumpTable |-> "default"]
    /\ block = << >>
    /\ gasLimit = 0
    /\ gp = 0
    /\ pstate = "new"
    /\ pre = [balance |-> balance, nonce |-> nonce, storage |-> storage,
              refund |-> refund, gp |-> gp]
    /\ LibIdle

NextRlp ==
    /\ \E g \in Goroutines :
          \/ Rlp_Call(g)
          \/ Rlp_RLock(g)
          \/ Rlp_Read(g)
          \/ Rlp_RUnlock(g)
          \/ Rlp_Lock(g)
          \/ Rlp_LockAcquired(g)
          \/ Rlp_Lookup1(g)
          \/ Rlp_PutDummy(g)
          \/ Rlp_Gen(g)
          \/ Rlp_Fill(g)
          \/ Rlp_Delete(g)
          \/ Rlp_Unlock(g)
    /\ UNCHANGED <<evmVars, listVars>>

SpecRlp == InitRlp /\ [][NextRlp]_vars

(***************************************************************************)
(* Properties of the transaction list.                                     *)
(***************************************************************************)
\* The step is a call of op on the list.
ListCall(op) == listRet' # listRet /\ listRet'.op = op

\* The nonces of a slice of transactions, in its order.
NoncesOf(txs) == [i \in DOMAIN txs |-> txs[i].nonce]

\* The nonces the map holds from start on without a gap.
RunFrom(its, start) ==
    {n \in DOMAIN its : n >= start /\ \A k \in start .. n : k \in DOMAIN its}

\* The nonces the map holds below start.
Below(its, start) == {n \in DOMAIN its : n < start}

\* The smallest nonce of a map that is not empty.
LowestNonce(its) == CHOOSE n \in DOMAIN its : \A k \in DOMAIN its : n <= k

\* C31 (as stated): Ready(start) on a map that is not empty and whose
\* lowest nonce is not above start returns, in increasing order of nonce,
\* every transaction with a nonce below start and the gap-free run of
\* transactions that starts at start, and removes exactly these from the
\* map; on an empty map, or one whose lowest nonce is above start, it
\* returns nothing and leaves the map as it is.
C31_ReadyReturnsLowerAndRun ==
    [][ListCall("Ready") =>
          LET start == listRet'.arg
              want == Below(items, start) \cup RunFrom(items, start)
          IN  IF items = << >> \/ LowestNonce(items) > start
              THEN /\ listRet'.out = << >>
                   /\ <<items, index, cache>>' = <<items, index, cache>>
              ELSE /\ NoncesOf(listRet'.out) = SortNonces(want)
                   /\ listRet'.out = TxsAt(items, SortNonces(want))
                   /\ items' = Without(items, want)]_vars

\* Add accepts tx, whose nonce the list holds with the transaction old,
\* under the replacement rule with the price bump (percent) priceBump.
Replaces(tx, old, priceBump) ==
    /\ tx.gasPrice > old.gasPrice
    /\ tx.gasPrice >= (old.gasPrice * (100 + priceBump)) \div 100

\* The largest of a number and the members of a set of numbers.
MaxOf(x, S) == CHOOSE y \in S \cup {x} : \A z \in S \cup {x} : z <= y

\* C32 (as stated): Add accepts a transaction whose nonce is not in the
\* list; it accepts one whose nonce is in the list exactly when its gas
\* price is strictly higher than the old one's and at least old price *
\* (100 + priceBump) / 100, and then the new transaction takes the place of
\* the old one, which is returned; a rejected Add returns (false, nil) and
\* leaves the list, its caps included, as it is; the list holds one
\* transaction per nonce.
C32_ReplacementRule ==
    [][ListCall("Add") =>
          LET tx == listRet'.tx[1]
              priceBump == listRet'.arg
              present == tx.nonce \in DOMAIN items
          IN  /\ listRet'.ok <=>
                    (present => Replaces(tx, items[tx.nonce], priceBump))
              /\ listRet'.ok =>
                    /\ listRet'.out = IF present THEN <<items[tx.nonce]>> ELSE << >>
                    /\ DOMAIN items' = DOMAIN items \cup {tx.nonce}
                    /\ items'[tx.nonce] = tx
                    /\ \A n \in DOMAIN items \ {tx.nonce} : items'[n] = items[n]
                    /\ costcap' = MaxOf(costcap, {TxCost(tx)})
                    /\ gascap' = MaxOf(gascap, {tx.gas})
              /\ ~listRet'.ok =>
                    /\ listRet'.out = << >>
                    /\ <<strict, items, index, cache, costcap, gascap>>'
                          = <<strict, items, index, cache, costcap, gascap>>
              /\ Len(index') = Cardinality(DOMAIN items')
              /\ Range(index') = DOMAIN items']_vars

\* The caps of the list are at least the cost and the gas limit of each of
\* its transactions.
CapsCover ==
    \A n \in DOMAIN items :
       TxCost(items[n]) <= costcap /\ items[n].gas <= gascap

\* C33: the cost cap is at least the cost and the gas cap at least the gas
\* limit of every transaction of the list, after every call; after
\* Filter(costLimit, gasLimit), on its short-circuit path too, no
\* transaction left in the list costs more than costLimit or has a gas
\* limit above gasLimit, and the removed transactions are exactly those of
\* the list that exceeded a limit; the short circuit returns nothing and
\* changes nothing.
C33_CapsAndFilter ==
    /\ [][CapsCover']_vars
    /\ [][ListCall("Filter") =>
             LET costLimit == listRet'.arg
                 gasLim == listRet'.arg2
                 over == {n \in DOMAIN items :
                             TxCost(items[n]) > costLimit \/ items[n].gas > gasLim}
             IN  /\ \A n \in DOMAIN items' :
                       /\ TxCost(items'[n]) <= costLimit
                       /\ items'[n].gas <= gasLim
                       /\ items'[n] = items[n]
                 /\ Range(listRet'.out) = {items[n] : n \in over}
                 /\ Len(listRet'.out) = Cardinality(over)
                 /\ DOMAIN items' =
                       DOMAIN items \ (over \cup Range(NoncesOf(listRet'.out2)))
                 /\ (costcap <= costLimit /\ gascap <= gasLim) =>
                       /\ over = {}
                       /\ listRet'.out = << >>
                       /\ listRet'.out2 = << >>
                       /\ <<strict, items, index, cache, costcap, gascap>>'
                             = <<strict, items, index, cache, costcap, gascap>>
                 /\ ~(costcap <= costLimit /\ gascap <= gasLim) =>
                       (costcap' = costLimit /\ gascap' = gasLim)]_vars

C33_Witness ==
    /\ listRet.op = "Filter"
    /\ listRet.arg = 2
    /\ listRet.arg2 = 1
    /\ Len(listRet.out) = 2
    /\ listRet.out2 = << >>
    /\ DOMAIN items = {1}
    /\ costcap = 2
    /\ gascap = 1
    /\ \E i \in 1 .. 2 : listRet.out[i].gas = 2
    /\ \E i \in 1 .. 2 : listRet.out[i].gasPrice = 3

\* The transactions of a slice, as a set.
TxSet(txs) == {txs[i] : i \in DOMAIN txs}

\* C34: in a strict list Remove of a transaction whose nonce n is present
\* removes it together with every transaction with a nonce above n, and
\* returns the latter as invalidated; a Filter that removes a transaction
\* also removes, and returns as invalidated, every other transaction with a
\* nonce above the lowest removed nonce; in a list that is not strict
\* neither removes more than the transactions directly removed and nothing
\* is returned as invalidated; Remove of a nonce that is not present
\* returns (false, nil) and changes nothing.
C34_StrictInvalidation ==
    /\ [][ListCall("Remove") =>
             LET n == listRet'.tx[1].nonce
                 above == {k \in DOMAIN items : k > n}
             IN  /\ listRet'.ok <=> n \in DOMAIN items
                 /\ ~listRet'.ok =>
                       /\ listRet'.out = << >>
                       /\ <<strict, items, index, cache, costcap, gascap>>'
                             = <<strict, items, index, cache, costcap, gascap>>
                 /\ (listRet'.ok /\ strict) =>
                       /\ DOMAIN items' = DOMAIN items \ ({n} \cup above)
                       /\ TxSet(listRet'.out) = {items[k] : k \in above}
                       /\ Len(listRet'.out) = Cardinality(above)
                 /\ (listRet'.ok /\ ~strict) =>
                       /\ DOMAIN items' = DOMAIN items \ {n}
                       /\ listRet'.out = << >>
                 /\ \A k \in DOMAIN items' : items'[k] = items[k]
                 /\ strict' = strict]_vars
    /\ [][ListCall("Filter") =>
             LET removed == Range(NoncesOf(listRet'.out))
                 low == CHOOSE k \in removed : \A j \in removed : k <= j
                 above == {k \in DOMAIN items \ removed : k > low}
             IN  /\ (strict /\ removed # {}) =>
                       /\ TxSet(listRet'.out2) = {items[k] : k \in above}
                       /\ Len(listRet'.out2) = Cardinality(above)
                       /\ DOMAIN items' = DOMAIN items \ (removed \cup above)
                 /\ (~strict \/ removed = {}) =>
                       /\ listRet'.out2 = << >>
                       /\ DOMAIN items' = DOMAIN items \ removed
                 /\ \A k \in DOMAIN items' : items'[k] = items[k]
                 /\ strict' = strict]_vars

C34_Witness ==
    /\ strict
    /\ listRet.op = "Filter"
    /\ NoncesOf(listRet.out) = <<1>>
    /\ NoncesOf(listRet.out2) = <<2>>
    /\ DOMAIN items = {0}
    /\ listRet.out2[1].gas = 1
    /\ TxCost(listRet.out2[1]) <= listRet.arg

\* The nonce heap holds the keys of the items, each once, every element is
\* at least its parent (so the root is the smallest nonce), and a cache
\* that is not nil is the items in increasing order of nonce.
RepOk ==
    /\ Len(index) = Cardinality(DOMAIN items)
    /\ Range(index) = DOMAIN items
    /\ \A p \in 1 .. Len(index) - 1 : index[(p - 1) \div 2 + 1] <= index[p + 1]
    /\ index # << >> => \A n \in DOMAIN items : index[1] <= n
    /\ cache.set =>
          /\ Len(cache.txs) = Cardinality(DOMAIN items)
          /\ \A i \in DOMAIN cache.txs :
                /\ cache.txs[i].nonce \in DOMAIN items
                /\ cache.txs[i] = items[cache.txs[i].nonce]
                /\ \A j \in DOMAIN cache.txs :
                      i < j => cache.txs[i].nonce < cache.txs[j].nonce
    /\ ~cache.set => cache.txs = << >>

\* C35: after every call the representation of the sorted map is sound
\* (RepOk), and Flatten returns all the items in increasing order of nonce
\* and changes neither the items nor the heap.
C35_Representation ==
    /\ [][RepOk']_vars
    /\ [][ListCall("Flatten") =>
             /\ Len(listRet'.out) = Cardinality(DOMAIN items)
             /\ TxSet(listRet'.out) = {items[n] : n \in DOMAIN items}
             /\ \A i, j \in DOMAIN listRet'.out :
                   i < j => listRet'.out[i].nonce < listRet'.out[j].nonce
             /\ items' = items
             /\ index' = index
             /\ cache'.set /\ cache'.txs = listRet'.out]_vars

C35_Witness ==
    /\ listRet.op = "Flatten"
    /\ index = <<0, 2, 1>>
    /\ NoncesOf(listRet.out) = <<0, 1, 2>>
    /\ cache.set
    /\ NoncesOf(cache.txs) = <<0, 1, 2>>

(***************************************************************************)
(* Properties of the type cache.                                           *)
(***************************************************************************)
\* The goroutine executes a statement that reads the map under the read
\* lock.
InReadSection(g) == gos[g].pc \in {"read", "RUnlock"}

\* The goroutine is between the return of Lock and the deferred Unlock,
\* where the map is read and written.
InWriteSection(g) == gos[g].stack # << >> \/ gos[g].pc = "Unlock"

\* The goroutine's next statement can execute.
CanStep(g) ==
    CASE gos[g].pc = "idle" -> gos[g].calls < MaxCalls
      [] gos[g].pc \in {"RLock", "Lock"} ->
            /\ typeCacheMutex.writer = NoGoroutine
            /\ typeCacheMutex.pending = NoGoroutine
      [] gos[g].pc = "LockWait" -> typeCacheMutex.readers = {}
      [] OTHER -> TRUE

Filled(p) == p # 0 /\ infos[p] = "filled"

\* C36: under concurrent calls of cachedTypeInfo no goroutine writes the
\* map while another reads or writes it; a key is generated successfully at
\* most once and every caller receives the same pointer, that of the cache
\* entry; no caller receives the placeholder of a generation that has not
\* finished; after a failed generation the key has no entry; and a call in
\* progress can always continue, the nested lookups never waiting for the
\* lock their own goroutine holds.
C36_TypeCacheConcurrency ==
    /\ \A g \in Goroutines : \A h \in Goroutines \ {g} :
          InWriteSection(g) => ~InWriteSection(h) /\ ~InReadSection(h)
    /\ \A k \in TypeKeys :
          /\ generated[k] <= 1
          /\ Cardinality(received[k]) <= 1
          /\ \A p \in received[k] : Filled(p) /\ typeCache[k] = p
    /\ \A g \in Goroutines :
          /\ gos[g].pc = "RUnlock" /\ gos[g].info # 0 => Filled(gos[g].info)
          /\ gos[g].pc = "Unlock" /\ ~gos[g].err => Filled(gos[g].ret)
          /\ gos[g].pc = "Unlock" /\ gos[g].err => typeCache[gos[g].key] = 0
    /\ (\A g \in Goroutines : ~InWriteSection(g)) =>
          \A k \in TypeKeys : typeCache[k] # 0 => Filled(typeCache[k])
    /\ (\E g \in Goroutines : gos[g].pc # "idle") =>
          \E g \in Goroutines : CanStep(g)

\* The recursive struct type was generated once and a caller has received
\* its pointer, while the other goroutine still holds the write lock after
\* a generation that failed and deleted its placeholder.
C36_Witness ==
    /\ Cardinality(received["S"]) = 1
    /\ generated["S"] = 1
    /\ generated["PS"] = 1
    /\ \E g \in Goroutines : \E h \in Goroutines \ {g} :
          /\ gos[g].calls >= 1
          /\ gos[g].ret \in received["S"]
          /\ gos[h].pc = "Unlock"
          /\ gos[h].key = "T"
          /\ gos[h].err
          /\ typeCache["T"] = 0


====
